---------------------------- MODULE Spec2Model ----------------------------
(***************************************************************************)
(* The validate-and-repair loop of the contract-test generator             *)
(* (github_ops/workflow_runner.py, github_ops/test_runner.py,              *)
(* github_ops/validation_loop.py) with its two engines: the quality        *)
(* scorers (test_generator/output_parser.py,                               *)
(* provider/provider_generator.py) and the same-error detector.            *)
(*                                                                         *)
(* Representation of text.  A Python string whose only whitespace is ' '   *)
(* and '\n' is the sequence of its '\n'-separated lines, and a line is the *)
(* sequence of its ' '-separated tokens; a token may be "" (two adjacent   *)
(* spaces, a leading or a trailing space).  The map is a bijection:        *)
(*     ""            is  << <<"">> >>                                      *)
(*     " "           is  << <<"", "">> >>                                  *)
(*     "a b\n\nc"    is  << <<"a","b">>, <<"">>, <<"c">> >>                *)
(* so output.split("\n") is the sequence itself and "\n".join(lines) is    *)
(* the sequence of the lines joined.  Tokens are drawn from Vocab, and     *)
(* Python's per-token string operations (lower, len, isdigit, in,          *)
(* startswith, endswith) are tabulated for Vocab.                          *)
(***************************************************************************)
EXTENDS Integers, Sequences, FiniteSets, TLC

-----------------------------------------------------------------------------
(* Tokens and Python's string operations on them *)

\* the tokens texts are made of; "x*4100" stands for the letter x written 4100
\* times, a line longer than the feedback keeps, and "x*4000" for its first
\* 4000 characters
Vocab ==
    {"", "1", "42", "ok", "foo", "Foo", "bar", "baz", "failed", "FAILED", "FAIL",
     "Error:", "TypeError:", "ReferenceError:", "undefined", "Cannot", "find", "at",
     "line", "PASS", "Test", "execution", "timed", "out", "after", "120s", "Unsupported",
     "language:", "unknown.", "Supported:", "['javascript',", "'typescript',", "'go',",
     "'python',", "'java',", "'kotlin']", "x*4000", "x*4100"}

\* <<w, w.lower()>> for the tokens that have upper-case letters
LowerPairs ==
    {<<"Foo", "foo">>, <<"FAILED", "failed">>, <<"FAIL", "fail">>,
     <<"Error:", "error:">>, <<"TypeError:", "typeerror:">>,
     <<"ReferenceError:", "referenceerror:">>, <<"Cannot", "cannot">>,
     <<"PASS", "pass">>, <<"Test", "test">>, <<"Unsupported", "unsupported">>,
     <<"Supported:", "supported:">>}

\* len(w)
WordLen(w) ==
    CASE w \in {""} -> 0
      [] w \in {"1"} -> 1
      [] w \in {"42", "ok", "at"} -> 2
      [] w \in {"foo", "Foo", "bar", "baz", "out"} -> 3
      [] w \in {"FAIL", "find", "line", "PASS", "Test", "120s"} -> 4
      [] w \in {"timed", "after", "'go',"} -> 5
      [] w \in {"failed", "FAILED", "Error:", "Cannot"} -> 6
      [] w \in {"'java',"} -> 7
      [] w \in {"unknown."} -> 8
      [] w \in {"undefined", "execution", "language:", "'python',", "'kotlin']"} -> 9
      [] w \in {"TypeError:", "Supported:"} -> 10
      [] w \in {"Unsupported"} -> 11
      [] w \in {"'typescript',"} -> 13
      [] w \in {"['javascript',"} -> 14
      [] w \in {"ReferenceError:"} -> 15
      [] w \in {"x*4000"} -> 4000
      [] w \in {"x*4100"} -> 4100

\* the tokens w with w.isdigit()
DigitWords ==
    {"1", "42"}

\* <<p, w>> with p in w, for the space-separated parts p of the keywords of the
\* extractors and the tokens w
InfixPairs ==
    {<<"Cannot", "Cannot">>, <<"Error:", "Error:">>, <<"Error:", "TypeError:">>,
     <<"Error:", "ReferenceError:">>, <<"FAIL", "FAILED">>, <<"FAIL", "FAIL">>,
     <<"FAILED", "FAILED">>, <<"ReferenceError", "ReferenceError:">>, <<"ReferenceError:", "ReferenceError:">>,
     <<"TypeError", "TypeError:">>, <<"TypeError:", "TypeError:">>, <<"failed", "failed">>,
     <<"find", "find">>, <<"not", "Cannot">>, <<"undefined", "undefined">>}

\* <<p, w>> with w.startswith(p)
PrefixPairs ==
    {<<"Cannot", "Cannot">>, <<"Error:", "Error:">>, <<"FAIL", "FAILED">>,
     <<"FAIL", "FAIL">>, <<"FAILED", "FAILED">>, <<"ReferenceError", "ReferenceError:">>,
     <<"ReferenceError:", "ReferenceError:">>, <<"TypeError", "TypeError:">>, <<"TypeError:", "TypeError:">>,
     <<"failed", "failed">>, <<"find", "find">>, <<"undefined", "undefined">>}

\* <<p, w>> with w.endswith(p)
SuffixPairs ==
    {<<"Cannot", "Cannot">>, <<"Error:", "Error:">>, <<"Error:", "TypeError:">>,
     <<"Error:", "ReferenceError:">>, <<"FAIL", "FAIL">>, <<"FAILED", "FAILED">>,
     <<"ReferenceError:", "ReferenceError:">>, <<"TypeError:", "TypeError:">>, <<"failed", "failed">>,
     <<"find", "find">>, <<"not", "Cannot">>, <<"undefined", "undefined">>}

\* error_indicators of _extract_error_message, each split at its spaces; its
\* two cross-mark glyphs are left out: no token of Vocab holds them
error_indicators ==
    {<<"error:">>, <<"Error:">>, <<"ERROR">>, <<"failed">>, <<"Failed">>, <<"FAILED">>,
     <<"exception">>, <<"Exception">>, <<"TypeError">>, <<"ReferenceError">>,
     <<"SyntaxError">>, <<"AssertionError">>, <<"expect(">>, <<"Cannot", "find">>,
     <<"not", "found">>, <<"undefined">>, <<"FAIL", "">>}

\* patterns of extract_error_lines, each keyword split at its spaces
patterns_javascript ==
    {<<"Error:">>, <<"TypeError:">>, <<"ReferenceError:">>, <<"FAIL">>, <<"expect(">>,
     <<"Cannot", "find">>, <<"SyntaxError">>}

patterns_typescript ==
    {<<"Error:">>, <<"TypeError:">>, <<"ReferenceError:">>, <<"FAIL">>, <<"expect(">>,
     <<"Cannot", "find">>, <<"TS">>, <<"SyntaxError">>}

patterns_go ==
    {<<"FAIL">>, <<"panic:">>, <<"Error:">>, <<"undefined:">>, <<"cannot">>,
     <<"syntax", "error">>}

patterns_python ==
    {<<"Error:">>, <<"AssertionError:">>, <<"FAILED">>, <<"ImportError:">>,
     <<"ModuleNotFoundError:">>, <<"SyntaxError">>}

patterns_default ==
    {<<"Error:">>, <<"FAIL">>, <<"Exception:">>}
EmptyText == << <<"">> >>

\* str.lower() of a token
Lower(w) ==
    IF \E p \in LowerPairs : p[1] = w
    THEN (CHOOSE p \in LowerPairs : p[1] = w)[2]
    ELSE w

\* str.isdigit() of a token
IsDigit(w) == w \in DigitWords

\* part in token / token.startswith(part) / token.endswith(part); the empty
\* string is a substring, a prefix and a suffix of every token
Infix(p, w) == p = "" \/ <<p, w>> \in InfixPairs

Prefix(p, w) == p = "" \/ <<p, w>> \in PrefixPairs

Suffix(p, w) == p = "" \/ <<p, w>> \in SuffixPairs

\* kw in line, for a keyword given as its ' '-separated parts (no keyword of
\* the source has more than one space): a one-part keyword lies inside one
\* token; a two-part keyword ends one token and starts the next
KeywordIn(kw, line) ==
    IF Len(kw) = 1
    THEN \E i \in 1..Len(line) : Infix(kw[1], line[i])
    ELSE \E i \in 1..(Len(line) - 1) :
            Suffix(kw[1], line[i]) /\ Prefix(kw[2], line[i + 1])

\* text.split(): the whitespace-separated words of a text
SplitWords(text) ==
    UNION {{text[i][j] : j \in 1..Len(text[i])} : i \in 1..Len(text)} \ {""}

\* bool(text) of an optional string: None, written <<>>, and "" are falsy
Truthy(text) == text # <<>> /\ text # EmptyText

\* lines[-n:]
LastLines(lines, n) ==
    IF Len(lines) <= n THEN lines ELSE SubSeq(lines, Len(lines) - n + 1, Len(lines))

-----------------------------------------------------------------------------
(* Same-error detector: workflow_runner.errors_are_similar *)

common_words ==
    {"the", "a", "an", "is", "at", "in", "on", "for", "to", "of", "and", "or",
     "it", "be", "as", "was", "with", "that", "this", "from", "by", "are",
     "not", "but", "have", "has", "had", "do", "does", "did", "will", "would",
     "could", "should", "may", "might", "must", "can", "cannot", "been", "being",
     "test", "tests", "error", "failed", "expected", "received", "line"}

\* default threshold 0.6, kept as the fraction 3/5
DefaultThresholdNum == 3

DefaultThresholdDen == 5

\* set(text.lower().split()) filtered by stopword, length and isdigit; len and
\* isdigit of a token are those of its lower-cased form
extract_keywords(text) ==
    {Lower(w) : w \in {v \in SplitWords(text) :
                          /\ Lower(v) \notin common_words
                          /\ WordLen(v) > 2
                          /\ ~IsDigit(v)}}

\* the share of the first message's keywords found in the second, in place of
\* intersection over union
SimilarityOfFirst(words1, words2, num, den) ==
    Cardinality(words1 \cap words2) * den >= num * Cardinality(words1)

\* the comparison written as similarity > threshold
SimilarityAbove(words1, words2, num, den) ==
    Cardinality(words1 \cap words2) * den > num * Cardinality(words1 \cup words2)

\* intersection / union >= num / den, in integers (union > 0 here)
SimilarityAtLeast(words1, words2, num, den) ==
    Cardinality(words1 \cap words2) * den >= num * Cardinality(words1 \cup words2)

\* errors_are_similar with a shortcut for equal messages placed before the
\* checks for empty input
errors_are_similar_equal_first(error1, error2, num, den) ==
    IF error1 = error2
    THEN TRUE
    ELSE LET words1 == extract_keywords(error1)
             words2 == extract_keywords(error2)
         IN  IF words1 = {} \/ words2 = {}
             THEN FALSE
             ELSE SimilarityAtLeast(words1, words2, num, den)

errors_are_similar(error1, error2, num, den) ==
    IF ~Truthy(error1) \/ ~Truthy(error2)
    THEN FALSE
    ELSE LET words1 == extract_keywords(error1)
             words2 == extract_keywords(error2)
         IN  IF words1 = {} \/ words2 = {}
             THEN FALSE
             ELSE SimilarityAtLeast(words1, words2, num, den)

-----------------------------------------------------------------------------
(* Error excerpt extractors *)

\* len(error_lines) >= 30: break
MaxExcerptLines == 30

\* capture_next = 5
ContextLines == 5

\* lines[-20:]
TailLines == 20

patterns(language) ==
    CASE language = "javascript" -> patterns_javascript
      [] language = "typescript" -> patterns_typescript
      [] language = "go" -> patterns_go
      [] language = "python" -> patterns_python
      [] OTHER -> patterns_default

\* the for loop of extract_error_lines from line i on, with the loop's
\* variables error_lines and capture_next
RECURSIVE ScanErrorLines(_, _, _, _, _)
ScanErrorLines(lines, keywords, i, error_lines, capture_next) ==
    IF i > Len(lines)
    THEN error_lines
    ELSE LET hit == \E kw \in keywords : KeywordIn(kw, lines[i])
             el == IF hit \/ capture_next > 0
                   THEN Append(error_lines, lines[i])
                   ELSE error_lines
             cn == IF hit THEN ContextLines
                   ELSE IF capture_next > 0 THEN capture_next - 1
                   ELSE capture_next
         IN  IF Len(el) >= MaxExcerptLines
             THEN el
             ELSE ScanErrorLines(lines, keywords, i + 1, el, cn)

\* workflow_runner.extract_error_lines
extract_error_lines(output, language) ==
    LET error_lines == ScanErrorLines(output, patterns(language), 1, <<>>, 0)
    IN  IF error_lines # <<>>
        THEN error_lines
        ELSE LastLines(output, TailLines)

\* the loop of _extract_error_message without its break at 30 lines
RECURSIVE ScanErrorMessageNoBreak(_, _, _, _)
ScanErrorMessageNoBreak(lines, i, error_lines, capture) ==
    IF i > Len(lines)
    THEN error_lines
    ELSE LET cap == capture \/ \E ind \in error_indicators : KeywordIn(ind, lines[i])
             el == IF cap THEN Append(error_lines, lines[i]) ELSE error_lines
         IN  ScanErrorMessageNoBreak(lines, i + 1, el, cap)

\* the for loop of TestRunner._extract_error_message from line i on, with the
\* loop's variables error_lines and capture
RECURSIVE ScanErrorMessage(_, _, _, _)
ScanErrorMessage(lines, i, error_lines, capture) ==
    IF i > Len(lines)
    THEN error_lines
    ELSE LET cap == capture \/ \E ind \in error_indicators : KeywordIn(ind, lines[i])
             el == IF cap THEN Append(error_lines, lines[i]) ELSE error_lines
         IN  IF cap /\ Len(el) >= MaxExcerptLines
             THEN el
             ELSE ScanErrorMessage(lines, i + 1, el, cap)

\* TestRunner._extract_error_message
extract_error_message(output) ==
    LET error_lines == ScanErrorMessage(output, 1, <<>>, FALSE)
    IN  IF error_lines # <<>>
        THEN error_lines
        ELSE IF Len(output) > TailLines
             THEN LastLines(output, TailLines)
             ELSE output

-----------------------------------------------------------------------------
(* Rule tables of the scorers, restricted to the fragments of the model *)

GoFrags ==
    {"github.com/pact-foundation/pact-go/v2", "github.com/pact-foundation/pact-go\"\n",
     "consumer.NewV3Pact(", "consumer.NewPact(", ".AddInteraction()", "consumer.Like(",
     "require.NoError(", ".ExecuteTest(t,", "pact.Verify(",
     "func TestItems(t *testing.T)"}

TsFrags ==
    {"from '@pact-foundation/pact'", "from 'pact'", "new PactV3(", "new Pact(",
     ".uponReceiving(", "like(", "await expect(", ".executeTest(", ".verify(", "it("}

JvmFrags ==
    {"au.com.dius.pact.consumer", "@Pact(", ".given(", "PactDslJsonBody",
     "assertEquals(", "@PactTestFor(", "@Test\n  void t(", "@Test\n  fun t("}

PyFrags ==
    {"from pact import", "Pact(", ".upon_receiving(", "Like(", "assert ", "with pact:",
     "def test_items("}

CommonFrags ==
    {"// TODO", "\"123\"", "WithRequest(\"/items?x=1\")",
     "ExecuteTest(t, func() error { return nil }"}

ProviderFrags ==
    {"require('rewire')", ".__set__(", "require('@pact-foundation/pact')", "Verifier",
     "stateHandlers", "describe(", "listen(", "PACT_URL", "PACTFLOW_BASE_URL",
     "item exists", "user\\'s cart"}

ProviderOtherFrags ==
    {"pact-go", "HTTPVerifier", "StateHandlers", "@Provider", "@State", "state_handler"}

Fragments ==
    GoFrags \cup TsFrags \cup JvmFrags \cup PyFrags \cup CommonFrags
        \cup ProviderFrags \cup ProviderOtherFrags

GO_RULES ==
    [imports_correct |-> <<{"github.com/pact-foundation/pact-go/v2"}, {}>>,
     imports_deprecated |-> <<{"github.com/pact-foundation/pact-go\"\n"}>>,
     pact_setup_correct |-> {"consumer.NewV3Pact("},
     pact_setup_deprecated |-> <<{"consumer.NewPact("}, {}>>,
     interactions_pattern |-> {".AddInteraction()"},
     matchers_patterns |-> <<{"consumer.Like("}, {}, {}, {}, {}, {}>>,
     error_handling_patterns |-> <<{"require.NoError("}, {}, {}>>,
     execute_pattern_correct |-> {".ExecuteTest(t,"},
     execute_pattern_deprecated |-> <<{"pact.Verify("}, {"pact.Verify("}>>,
     test_function_pattern |-> {"func TestItems(t *testing.T)"}]

TYPESCRIPT_RULES ==
    [imports_correct |-> <<{"from '@pact-foundation/pact'"}, {"new PactV3("}, {}>>,
     imports_deprecated |-> <<{"from 'pact'"}>>,
     pact_setup_correct |-> {"new PactV3("},
     pact_setup_deprecated |-> <<{"new Pact("}>>,
     interactions_pattern |-> {".uponReceiving(", ".given("},
     matchers_patterns |-> <<{"like("}, {}, {}, {}, {}, {}>>,
     error_handling_patterns |-> <<{}, {}, {}, {}, {"await expect("}>>,
     execute_pattern_correct |-> {".executeTest("},
     execute_pattern_deprecated |-> <<{".verify("}>>,
     test_function_pattern |-> {"it(", "describe("}]

JAVA_RULES ==
    [imports_correct |-> <<{"au.com.dius.pact.consumer"}, {}>>,
     imports_deprecated |-> <<>>,
     pact_setup_correct |-> {"@Pact("},
     pact_setup_deprecated |-> <<>>,
     interactions_pattern |-> {".uponReceiving(", ".given("},
     matchers_patterns |-> <<{}, {"PactDslJsonBody"}, {}, {}, {}>>,
     error_handling_patterns |-> <<{}, {"assertEquals("}, {},
                                     {"@Test\n  void t(", "@Test\n  fun t("}>>,
     execute_pattern_correct |-> {"@PactTestFor("},
     execute_pattern_deprecated |-> <<>>,
     test_function_pattern |-> {"@Test\n  void t("}]

KOTLIN_RULES ==
    [imports_correct |-> <<{"au.com.dius.pact.consumer"}, {}>>,
     imports_deprecated |-> <<>>,
     pact_setup_correct |-> {"@Pact("},
     pact_setup_deprecated |-> <<>>,
     interactions_pattern |-> {".uponReceiving(", ".given("},
     matchers_patterns |-> <<{}, {"PactDslJsonBody"}, {}, {}, {}>>,
     error_handling_patterns |-> <<{}, {"assertEquals("}, {},
                                     {"@Test\n  void t(", "@Test\n  fun t("}>>,
     execute_pattern_correct |-> {"@PactTestFor("},
     execute_pattern_deprecated |-> <<>>,
     test_function_pattern |-> {"@Test\n  fun t("}]

PYTHON_RULES ==
    [imports_correct |-> <<{"from pact import"}, {}, {}>>,
     imports_deprecated |-> <<>>,
     pact_setup_correct |-> {"consumer.NewV3Pact(", "consumer.NewPact(",
                                "new Pact(", "@Pact(", "Pact("},
     pact_setup_deprecated |-> <<>>,
     interactions_pattern |-> {".given(", ".upon_receiving("},
     matchers_patterns |-> <<{"consumer.Like(", "Like("}, {}, {}, {}, {}>>,
     error_handling_patterns |-> <<{"assert "}, {}, {"with pact:"}>>,
     execute_pattern_correct |-> {"with pact:"},
     execute_pattern_deprecated |-> <<>>,
     test_function_pattern |-> {"def test_items("}]

\* re.search(r'//\s*(TODO|FIXME|XXX)', code, re.IGNORECASE)
TodoMatches ==
    {"// TODO"}

\* the three hardcoded_patterns, in order
hardcoded_patterns ==
    <<{"\"123\""}, {}, {}>>

\* re.search(r'WithRequest\([^)]*\?[^)]*\)', code)
QueryInPathMatches ==
    {"WithRequest(\"/items?x=1\")"}

\* re.search(r'ExecuteTest\([^{]*\{\s*return\s+nil\s*\}', code)
EmptyCallbackMatches ==
    {"ExecuteTest(t, func() error { return nil }"}

\* the substrings of the eight hallucinated_patterns, in order
hallucinated_patterns ==
    <<".__get__(",
      ".__set__(",
      "require('rewire')",
      "require(\"rewire\")",
      "require('proxyquire')",
      "require(\"proxyquire\")",
      "require('mock-require')",
      "require(\"mock-require\")">>

\* the pairs <<s, f>> with s in f, for the substrings s the provider validator
\* looks for and the fragments f
SubstrPairs ==
    {<<".__set__(", ".__set__(">>,
     <<"require('rewire')", "require('rewire')">>,
     <<"require('@pact-foundation/pact')", "require('@pact-foundation/pact')">>,
     <<"from '@pact-foundation/pact'", "from '@pact-foundation/pact'">>,
     <<"Verifier", "Verifier">>,
     <<"Verifier", "HTTPVerifier">>,
     <<"stateHandlers", "stateHandlers">>,
     <<"describe(", "describe(">>,
     <<"it(", "it(">>,
     <<"listen(", "listen(">>,
     <<"pact-go", "github.com/pact-foundation/pact-go/v2">>,
     <<"pact-go", "github.com/pact-foundation/pact-go\"\n">>,
     <<"pact-go", "pact-go">>,
     <<"HTTPVerifier", "HTTPVerifier">>,
     <<"StateHandlers", "StateHandlers">>,
     <<"@Provider", "@Provider">>,
     <<"@State", "@State">>,
     <<"state_handler", "state_handler">>,
     <<"PACT_URL", "PACT_URL">>,
     <<"PACTFLOW_BASE_URL", "PACTFLOW_BASE_URL">>,
     <<"item exists", "item exists">>,
     <<"user\\'s cart", "user\\'s cart">>}

\* state.replace("'", "\\'")
EscapeQuotes(state) ==
    CASE state = "item exists" -> "item exists"
      [] state = "user's cart" -> "user\\'s cart"
      [] state = "no items" -> "no items"

-----------------------------------------------------------------------------
(* Quality scorer for consumer tests: output_parser.OutputParser            *)
(*                                                                          *)
(* Generated code is abstracted to what the scorers read of it:            *)
(*   blank          not code.strip()                                        *)
(*   lines          len(code.strip().split('\n'))   (1 for blank code)      *)
(*   frags          the fragments of Fragments that occur in the code; a    *)
(*                  regular expression of the rule tables is the set of     *)
(*                  fragments re.search finds it in                         *)
(*   count          code.count(c) for the six delimiters                    *)
(*   comment_lines  the number of lines that start a comment                 *)
(* Scores are kept in tenths of a point: 5.0 is 50, a warning costs 3.      *)
(***************************************************************************)

\* re.search(pattern, code)
Search(pattern, code) == code.frags \cap pattern # {}

\* any(re.search(pattern, code) for pattern in patterns)
SearchAny(patterns_, code) ==
    \E i \in 1..Len(patterns_) : Search(patterns_[i], code)

\* the number of patterns of a list that re.search finds in the code
SearchCount(patterns_, code) ==
    Cardinality({i \in 1..Len(patterns_) : Search(patterns_[i], code)})

\* k copies of one issue, as appended by a loop over a pattern list
Repeat(issue, k) == [j \in 1..k |-> issue]

QualityIssue(severity, rule) == [severity |-> severity, rule |-> rule]

\* language.lower() of a language tag
LowerTag(language) ==
    CASE language = "Go" -> "go"
      [] language = "TypeScript" -> "typescript"
      [] OTHER -> language

KnownLanguages == {"go", "typescript", "javascript", "java", "kotlin", "python"}

\* LANGUAGE_RULES.get(language), for a known language
LANGUAGE_RULES(language) ==
    CASE language = "go" -> GO_RULES
      [] language = "typescript" -> TYPESCRIPT_RULES
      [] language = "javascript" -> TYPESCRIPT_RULES
      [] language = "java" -> JAVA_RULES
      [] language = "kotlin" -> KOTLIN_RULES
      [] language = "python" -> PYTHON_RULES

\* ParsedOutput(code=code, language=language, line_count=...)
ParsedOutput(code, language) ==
    [code |-> code, language |-> language, line_count |-> code.lines,
     is_valid_syntax |-> TRUE, quality_score |-> 0, issues |-> <<>>,
     has_imports |-> FALSE, has_test_function |-> FALSE,
     has_pact_setup |-> FALSE, has_interactions |-> FALSE,
     has_matchers |-> FALSE, has_error_handling |-> FALSE,
     uses_correct_version |-> FALSE, uses_execute_pattern |-> FALSE]

\* minimum number of lines
MinLines == 10

check_minimum_code(result) ==
    LET short == IF result.line_count < MinLines
                 THEN <<QualityIssue("error", "minimum-code")>> ELSE <<>>
        empty == IF result.code.blank
                 THEN <<QualityIssue("error", "empty-code")>> ELSE <<>>
    IN  [result EXCEPT !.issues = @ \o short \o empty]

check_imports(result, rules) ==
    LET has_correct == SearchAny(rules.imports_correct, result.code)
        missing == IF ~has_correct /\ rules.imports_correct # <<>>
                   THEN <<QualityIssue("error", "missing-imports")>> ELSE <<>>
        deprecated == Repeat(QualityIssue("error", "deprecated-import"),
                             SearchCount(rules.imports_deprecated, result.code))
    IN  [result EXCEPT !.has_imports = has_correct,
                       !.issues = @ \o missing \o deprecated]

check_pact_setup(result, rules) ==
    LET correct == Search(rules.pact_setup_correct, result.code)
        n == SearchCount(rules.pact_setup_deprecated, result.code)
        missing == IF correct THEN <<>>
                   ELSE <<QualityIssue("error", "missing-pact-setup")>>
    IN  [result EXCEPT !.has_pact_setup = IF correct THEN TRUE ELSE @,
                       !.uses_correct_version = IF n > 0 THEN FALSE
                                                ELSE IF correct THEN TRUE ELSE @,
                       !.issues = @ \o missing
                           \o Repeat(QualityIssue("error", "deprecated-pact-setup"), n)]

check_interactions(result, rules) ==
    IF Search(rules.interactions_pattern, result.code)
    THEN [result EXCEPT !.has_interactions = TRUE]
    ELSE [result EXCEPT !.issues =
              Append(@, QualityIssue("error", "missing-interactions"))]

check_matchers(result, rules) ==
    LET has == SearchAny(rules.matchers_patterns, result.code)
    IN  [result EXCEPT !.has_matchers = has,
                       !.issues = IF has THEN @
                                  ELSE Append(@, QualityIssue("warning", "no-matchers"))]

check_error_handling(result, rules) ==
    LET has == SearchAny(rules.error_handling_patterns, result.code)
    IN  [result EXCEPT !.has_error_handling = has,
                       !.issues = IF has THEN @
                                  ELSE Append(@, QualityIssue("warning", "no-error-handling"))]

check_execute_pattern(result, rules) ==
    LET correct == Search(rules.execute_pattern_correct, result.code)
        n == SearchCount(rules.execute_pattern_deprecated, result.code)
    IN  [result EXCEPT !.uses_execute_pattern = IF n > 0 THEN FALSE
                                                ELSE IF correct THEN TRUE ELSE @,
                       !.issues = @ \o
                           Repeat(QualityIssue("error", "deprecated-execute-pattern"), n)]

check_test_function(result, rules) ==
    IF Search(rules.test_function_pattern, result.code)
    THEN [result EXCEPT !.has_test_function = TRUE]
    ELSE [result EXCEPT !.issues =
              Append(@, QualityIssue("error", "missing-test-function"))]

check_syntax(result) ==
    LET c == result.code.count
        braces == IF c["{"] # c["}"]
                  THEN <<QualityIssue("error", "syntax-braces")>> ELSE <<>>
        parens == IF c["("] # c[")"]
                  THEN <<QualityIssue("error", "syntax-parens")>> ELSE <<>>
        brackets == IF c["["] # c["]"]
                    THEN <<QualityIssue("error", "syntax-brackets")>> ELSE <<>>
        found == braces \o parens \o brackets
    IN  [result EXCEPT !.is_valid_syntax = IF found # <<>> THEN FALSE ELSE @,
                       !.issues = @ \o found]

check_common_issues(result) ==
    LET code == result.code
        todo == IF Search(TodoMatches, code)
                THEN <<QualityIssue("info", "todo-comments")>> ELSE <<>>
        \* comment_lines / total_lines > 0.3
        comments == IF result.line_count > 0
                       /\ 10 * code.comment_lines > 3 * result.line_count
                    THEN <<QualityIssue("warning", "excessive-comments")>> ELSE <<>>
        hardcoded == IF SearchAny(hardcoded_patterns, code)
                     THEN <<QualityIssue("info", "hardcoded-values")>> ELSE <<>>
        query == IF Search(QueryInPathMatches, code)
                 THEN <<QualityIssue("warning", "query-in-path")>> ELSE <<>>
        callback == IF Search(EmptyCallbackMatches, code)
                    THEN <<QualityIssue("warning", "empty-callback")>> ELSE <<>>
    IN  [result EXCEPT !.issues = @ \o todo \o comments \o hardcoded \o query \o callback]

\* the points of _calculate_score, in tenths
BaseScore == 50

ErrorPenalty == 10

WarningPenalty == 3

MaxScore == 100

CountSeverity(issues, severity) ==
    Cardinality({i \in 1..Len(issues) : issues[i].severity = severity})

Bonus(flag, points) == IF flag THEN points ELSE 0

\* the score before the clamp
RawScore(result) ==
    BaseScore
    + Bonus(result.is_valid_syntax, 10) + Bonus(result.has_imports, 5)
    + Bonus(result.has_test_function, 5) + Bonus(result.has_pact_setup, 10)
    + Bonus(result.has_interactions, 10) + Bonus(result.has_matchers, 5)
    + Bonus(result.has_error_handling, 5) + Bonus(result.uses_correct_version, 5)
    + Bonus(result.uses_execute_pattern, 5)
    - ErrorPenalty * CountSeverity(result.issues, "error")
    - WarningPenalty * CountSeverity(result.issues, "warning")

Min(a, b) == IF a < b THEN a ELSE b

Max(a, b) == IF a > b THEN a ELSE b

\* the score returned as computed, without max and min
Unclamped(score) == score

\* max(0.0, min(10.0, score))
Clamp(score) == Max(0, Min(MaxScore, score))

calculate_score(result) == Clamp(RawScore(result))

\* OutputParser.parse
parse(code, language_) ==
    LET language == LowerTag(language_)
        result == ParsedOutput(code, language)
    IN  IF language \notin KnownLanguages
        THEN [result EXCEPT
                 !.issues = Append(@, QualityIssue("warning", "unknown-language")),
                 !.quality_score = BaseScore]
        ELSE LET rules == LANGUAGE_RULES(language)
                 r1 == check_minimum_code(result)
                 r2 == check_imports(r1, rules)
                 r3 == check_pact_setup(r2, rules)
                 r4 == check_interactions(r3, rules)
                 r5 == check_matchers(r4, rules)
                 r6 == check_error_handling(r5, rules)
                 r7 == check_execute_pattern(r6, rules)
                 r8 == check_test_function(r7, rules)
                 r9 == check_syntax(r8)
                 r10 == check_common_issues(r9)
             IN  [r10 EXCEPT !.quality_score = calculate_score(r10)]

\* ParsedOutput.is_valid
is_valid(result) ==
    result.is_valid_syntax
    /\ ~\E i \in 1..Len(result.issues) : result.issues[i].severity = "error"

-----------------------------------------------------------------------------
(* Validator of provider tests: ProviderGenerator._validate_generated_code *)

\* sub in code
Contains(sub, code) == \E f \in code.frags : <<sub, f>> \in SubstrPairs

\* the messages of the eight hallucinated_patterns (all start "CRITICAL:")
CriticalMessage(i) ==
    CASE i = 1 -> "CRITICAL: .__get__() does not exist in standard Node.js"
      [] i = 2 -> "CRITICAL: .__set__() does not exist in standard Node.js"
      [] i \in {3, 4} -> "CRITICAL: rewire is not installed in this project"
      [] i \in {5, 6} -> "CRITICAL: proxyquire is not installed in this project"
      [] i \in {7, 8} -> "CRITICAL: mock-require is not installed in this project"

\* issue.startswith("CRITICAL:")
StartsWithCritical(issue) == issue \in {CriticalMessage(i) : i \in 1..8}

\* f"Missing handler for state: '{state}'"
MissingHandlerMessage(state) ==
    CASE state = "item exists" -> "Missing handler for state: 'item exists'"
      [] state = "user's cart" -> "Missing handler for state: 'user's cart'"
      [] state = "no items" -> "Missing handler for state: 'no items'"

\* one check of the validator: the issue and the deduction when it fires
Finding(fires, message, points) ==
    IF fires THEN <<[message |-> message, points |-> points]>> ELSE <<>>

LanguageFindings(code, language) ==
    IF language \in {"javascript", "typescript"}
    THEN Finding(~Contains("require('@pact-foundation/pact')", code)
                     /\ ~Contains("from '@pact-foundation/pact'", code),
                 "Missing Pact import (@pact-foundation/pact)", 10)
         \o Finding(~Contains("Verifier", code), "Missing Verifier class usage", 20)
         \o Finding(~Contains("stateHandlers", code),
                    "Missing stateHandlers configuration", 30)
         \o Finding(~Contains("describe(", code), "Missing describe block", 5)
         \o Finding(~Contains("it(", code) /\ ~Contains("test(", code),
                    "Missing test case", 5)
         \o Finding(~Contains("listen(", code), "Missing server start (listen)", 5)
    ELSE IF language = "go"
    THEN Finding(~Contains("pact-go", code) /\ ~Contains("pact_go", code),
                 "Missing pact-go import", 10)
         \o Finding(~Contains("HTTPVerifier", code), "Missing HTTPVerifier usage", 20)
         \o Finding(~Contains("StateHandlers", code), "Missing StateHandlers map", 30)
    ELSE IF language \in {"java", "kotlin"}
    THEN Finding(~Contains("@Provider", code), "Missing @Provider annotation", 10)
         \o Finding(~Contains("@State", code), "Missing @State annotated methods", 30)
    ELSE IF language = "python"
    THEN Finding(~Contains("Verifier", code), "Missing Verifier import", 10)
         \o Finding(~Contains("state_handler", code),
                    "Missing state_handler registration", 30)
    ELSE <<>>

RECURSIVE HallucinationFindings(_, _)
HallucinationFindings(code, i) ==
    IF i > Len(hallucinated_patterns)
    THEN <<>>
    ELSE Finding(Contains(hallucinated_patterns[i], code), CriticalMessage(i), 50)
         \o HallucinationFindings(code, i + 1)

RECURSIVE StateFindings(_, _, _)
StateFindings(code, expected_states, i) ==
    IF i > Len(expected_states)
    THEN <<>>
    ELSE Finding(~Contains(expected_states[i], code)
                     /\ ~Contains(EscapeQuotes(expected_states[i]), code),
                 MissingHandlerMessage(expected_states[i]), 5)
         \o StateFindings(code, expected_states, i + 1)

RECURSIVE SumPoints(_)
SumPoints(findings) ==
    IF findings = <<>> THEN 0
    ELSE Head(findings).points + SumPoints(Tail(findings))

\* score = 10.0
ProviderStartScore == 100

\* _validate_generated_code: (score, issues)
validate_generated_code(code, expected_states, language) ==
    LET findings ==
            HallucinationFindings(code, 1)
            \o LanguageFindings(code, language)
            \o StateFindings(code, expected_states, 1)
            \o Finding(~Contains("PACT_URL", code),
                       "Missing PACT_URL environment variable handling", 10)
            \o Finding(language \in {"javascript", "typescript"}
                           /\ ~Contains("PACTFLOW_BASE_URL", code)
                           /\ ~Contains("PACT_BROKER", code),
                       "Missing Pactflow URL configuration", 5)
    IN  [score |-> Max(0, ProviderStartScore - SumPoints(findings)),
         issues |-> [i \in 1..Len(findings) |-> findings[i].message]]

\* critical_issues = [i for i in quality_issues if i.startswith("CRITICAL:")]
CriticalIssues(issues) == SelectSeq(issues, StartsWithCritical)

\* _determine_output_path(...) leaf name: f"provider{extension}" or the
\* language's default test file; "" stands for no path
OutputPathFor(language) == "provider-test-file"

\* ProviderGenerationResult as generate builds it after the AI call; written
\* tells whether open(output_path, 'w') / f.write happened
ProviderGenerationResult(success, output_path, written, error, score, issues) ==
    [success |-> success, output_path |-> output_path, written |-> written,
     error |-> error, quality_score |-> score, quality_issues |-> issues]

generate_validated_by_score(code, expected_states, language, write_ok) ==
    LET v == validate_generated_code(code, expected_states, language)
    IN  IF v.score < 50
        THEN ProviderGenerationResult(FALSE, "", FALSE, "Code validation failed",
                              v.score, v.issues)
        ELSE IF ~write_ok
        THEN ProviderGenerationResult(FALSE, OutputPathFor(language), FALSE,
                              "Failed to write output file", 0, <<>>)
        ELSE ProviderGenerationResult(TRUE, OutputPathFor(language), TRUE, "None",
                              v.score, v.issues)

\* ProviderGenerator.generate, steps 5 and 6: validate, veto on critical
\* issues, write the file (write_ok: the write raised nothing)
generate_validated(code, expected_states, language, write_ok) ==
    LET v == validate_generated_code(code, expected_states, language)
    IN  IF CriticalIssues(v.issues) # <<>>
        THEN ProviderGenerationResult(FALSE, "", FALSE, "Code validation failed",
                              v.score, v.issues)
        ELSE IF ~write_ok
        THEN ProviderGenerationResult(FALSE, OutputPathFor(language), FALSE,
                              "Failed to write output file", 0, <<>>)
        ELSE ProviderGenerationResult(TRUE, OutputPathFor(language), TRUE, "None",
                              v.score, v.issues)

-----------------------------------------------------------------------------
(* Bounds of the model *)

\* the largest --max-retries argument explored
MaxRetries == 2

\* the most words of a line, and lines of a text, drawn for errors_are_similar
MaxWords == 2

\* the longest raw output drawn for the extractors, above the 30-line cap
MaxRawLines == 33

\* the longest generated code drawn for the scorers, in lines
MaxCodeLines == 12

-----------------------------------------------------------------------------
(* State *)

VARIABLES
    max_retries,        \* args.max_retries
    developer_feedback, \* args.revision_feedback
    repo_language,      \* the language the aggregator detects for the repository
    pc,                 \* position of _run_main
    attempt,            \* the loop variable of _run_main
    result,             \* the WorkflowResult of _run_main
    previous_error,     \* previous_error of _run_main
    revision_feedback,  \* revision_feedback of _run_main
    pipeline_result,    \* pipeline_result of the current attempt
    test_dir,           \* the files of tests/contract-tests in the target repo
    output_json,        \* the result JSON written for the workflow, or <<>>
    cur,                \* history: what the current attempt has done
    prev,               \* history: what the attempt before it did
    calls,              \* history: invocations of the generator and the runner
    vl,                 \* the ValidationLoop.run invocation
    fn                  \* a call of one of the pure functions and its value

vars ==
    <<max_retries, developer_feedback, repo_language, pc, attempt, result,
      previous_error, revision_feedback, pipeline_result, test_dir, output_json,
      cur, prev, calls, vl, fn>>

loop_vars ==
    <<max_retries, developer_feedback, repo_language, pc, attempt, result,
      previous_error, revision_feedback, pipeline_result, test_dir, output_json,
      cur, prev, calls, vl>>

\* Python's None, for the optional strings of the records
None == "None"

\* bool(s) of an optional string
TruthyStr(s) == s \notin {None, ""}

\* None, for an optional text
NoText == <<>>

-----------------------------------------------------------------------------
(* The generator collaborator: what pipeline.run can return *)

BalancedCount ==
    [c \in {"{", "}", "(", ")", "[", "]"} |-> 4]

\* a complete consumer test for JavaScript
GoodCode ==
    [blank |-> FALSE, lines |-> 12,
     frags |-> {"from '@pact-foundation/pact'", "new PactV3(", ".uponReceiving(",
                "like(", "await expect(", ".executeTest(", "it("},
     count |-> BalancedCount, comment_lines |-> 0]

\* a test that patches modules at run time with rewire and uses the v2 API
RewireCode ==
    [blank |-> FALSE, lines |-> 12,
     frags |-> {"require('rewire')", ".__set__(", "new Pact(", ".verify(", "it("},
     count |-> [BalancedCount EXCEPT !["("] = 5], comment_lines |-> 0]

\* an empty file
BlankCode ==
    [blank |-> TRUE, lines |-> 1, frags |-> {}, count |->
     [c \in {"{", "}", "(", ")", "[", "]"} |-> 0], comment_lines |-> 0]

GeneratedTest(filename, code) == [filename |-> filename, code |-> code]

\* the tests lists a generation may return
TestsPool ==
    {<<GeneratedTest("items.pact.test.js", GoodCode)>>,
     <<GeneratedTest("tests/contract-tests/items-api.pact.test.js", RewireCode)>>,
     <<GeneratedTest("items.pact.test.js", GoodCode),
       GeneratedTest("items.pact.test.ts", BlankCode)>>}

GenerationResult(change_type, tests, skip_reason) ==
    [change_type |-> change_type, tests |-> tests, skip_reason |-> skip_reason]

\* GenerationResult.has_tests
generation_has_tests(g) ==
    Len(g.tests) > 0 /\ g.change_type # "no_contract_impact"

\* the GenerationResult of _parse_response on a response that is not JSON
ParseFailure ==
    GenerationResult("no_contract_impact", <<>>, "JSON parse error")

\* what generator.generate may return
GenerationPool ==
    {ParseFailure,
     GenerationResult("new_endpoint", <<>>, None),
     GenerationResult("no_contract_impact",
                      <<GeneratedTest("items.pact.test.js", GoodCode)>>, None)}
    \cup {GenerationResult("new_endpoint", t, None) : t \in TestsPool}
    \cup {GenerationResult("modification",
                           <<GeneratedTest("items.pact.test.js", GoodCode)>>,
                           "partial coverage")}

\* how one call of pipeline.run goes: a step fails, the call raises, or the
\* generator returns
PipelineOutcomes ==
    {[kind |-> k, generation |-> <<>>] :
        k \in {"aggregation_failed", "compression_failed", "generation_failed",
               "raised"}}
    \cup {[kind |-> "generated", generation |-> <<g>>] : g \in GenerationPool}

\* PipelineResult as pipeline.run returns it for an outcome
PipelineResult(outcome, language) ==
    [detected_language |->
         IF outcome.kind = "aggregation_failed" THEN "unknown" ELSE language,
     generation_result |-> outcome.generation,
     error |->
         CASE outcome.kind = "aggregation_failed" -> "Context aggregation failed"
           [] outcome.kind = "compression_failed" -> "Context compression failed"
           [] outcome.kind = "generation_failed" -> "Test generation failed"
           [] OTHER -> None,
     skip_reason |->
         IF outcome.kind = "generated" /\ TruthyStr(outcome.generation[1].skip_reason)
         THEN outcome.generation[1].skip_reason
         ELSE None,
     success |-> outcome.kind = "generated"]

\* PipelineResult.has_tests
has_tests(p) ==
    p.generation_result # <<>> /\ generation_has_tests(p.generation_result[1])

\* PipelineResult.generated_tests
generated_tests(p) ==
    IF p.generation_result # <<>> THEN p.generation_result[1].tests ELSE <<>>

\* the value of pipeline_result before the first call
NoPipelineResult ==
    [detected_language |-> "unknown", generation_result |-> <<>>, error |-> None,
     skip_reason |-> None, success |-> FALSE]

-----------------------------------------------------------------------------
(* The test directory of the target repository *)

\* the file names of the model: those of TestsPool, by base name, and a helper
\* module that is in the directory before the run
FileNames ==
    {"items.pact.test.js", "items-api.pact.test.js", "items.pact.test.ts",
     "pact-helpers.js"}

\* Path(filename).name
PathName(filename) ==
    CASE filename = "tests/contract-tests/items-api.pact.test.js" ->
             "items-api.pact.test.js"
      [] filename \in FileNames -> filename

\* Path(test_file).stem
PathStem(name) ==
    CASE name = "items.pact.test.js" -> "items.pact.test"
      [] name = "items-api.pact.test.js" -> "items-api.pact.test"
      [] name = "items.pact.test.ts" -> "items.pact.test"
      [] name = "pact-helpers.js" -> "pact-helpers"

\* whether test_dir.glob("*.test.js") yields the file
IsTestJs(name) ==
    name \in {"items.pact.test.js", "items-api.pact.test.js"}

\* a file of the directory; attempt is history, 0 for a file older than the run
File(name, code, n) == [name |-> name, code |-> code, attempt |-> n]

\* the helper file a repository may hold in tests/contract-tests
HelperCode ==
    [blank |-> FALSE, lines |-> 9, frags |-> {}, count |-> BalancedCount,
     comment_lines |-> 1]

\* the directories the run may start from
InitialDirs ==
    {{}, {File("pact-helpers.js", HelperCode, 0)}}

\* the unlink loop over glob("*.test.js")
CleanStale(dir) ==
    {f \in dir : ~IsTestJs(f.name)}

\* write_text of tests[i..] in order, a later one overwriting an earlier one
RECURSIVE WriteFiles(_, _, _, _)
WriteFiles(dir, tests, i, n) ==
    IF i > Len(tests) THEN dir
    ELSE LET filename == PathName(tests[i].filename)
         IN WriteFiles({f \in dir : f.name # filename}
                           \cup {File(filename, tests[i].code, n)},
                       tests, i + 1, n)

\* the generated_files list built along the writes
FileList(tests) ==
    [i \in 1..Len(tests) |-> PathName(tests[i].filename)]

-----------------------------------------------------------------------------
(* The test runner *)

\* the keys of TEST_COMMANDS
TEST_COMMANDS ==
    {"javascript", "typescript", "go", "python", "java", "kotlin"}

\* language.lower(), for the language names of the model
LowerLanguage(language) ==
    CASE language = "JavaScript" -> "javascript"
      [] OTHER -> language

\* str(e) of the ValueError of TestRunner.__init__
UnsupportedMessage(language) ==
    CASE language = "unknown" ->
        << <<"Unsupported", "language:", "unknown.", "Supported:",
             "['javascript',", "'typescript',", "'go',", "'python',", "'java',",
             "'kotlin']">> >>

\* the message of the TimeoutExpired branch, with the default timeout of 120
TimeoutMessage ==
    << <<"Test", "execution", "timed", "out", "after", "120s">> >>

\* the message of the TimeoutExpired branch of _install_dependencies
InstallTimeoutMessage ==
    << <<"Dependency", "installation", "timed", "out", "after", "120s">> >>

\* A path is the sequence of its parts.  test_dir of _run_main, relative to
\* the repository, and the default test_path of run_tests
TestDirPath == <<"tests", "contract-tests">>

DefaultTestPath == <<"tests", "generated">>

\* str(f.relative_to(repo_path)) for a file of test_dir
RelativeToRepo(name) == TestDirPath \o <<name>>

\* the command of _run_single_test: the template and what is formatted into it
run_single_test(language, test_file) ==
    IF language \in {"java", "kotlin"}
    THEN [language |-> language, template |-> "test_single",
          argument |-> <<PathStem(test_file[Len(test_file)])>>]
    ELSE [language |-> language, template |-> "test_single",
          argument |-> test_file]

\* the command of _run_test_path; the "test" templates of java and kotlin
\* have no {test_path} field
run_test_path(language, test_path) ==
    [language |-> language, template |-> "test",
     argument |-> IF language \in {"java", "kotlin"} THEN <<>> ELSE test_path]

\* the command run_tests executes for the test files
run_tests_command(language, test_files, test_path) ==
    IF Cardinality(test_files) = 1
    THEN run_single_test(language, CHOOSE f \in test_files : TRUE)
    ELSE run_test_path(language, test_path)

\* the command of _install_dependencies
install_command(language) ==
    [language |-> language, template |-> "install", argument |-> <<>>]

IsBlankLine(line) ==
    \A i \in 1..Len(line) : line[i] = ""

RECURSIVE DropBlankTokens(_)
DropBlankTokens(line) ==
    IF Len(line) > 1 /\ line[1] = "" THEN DropBlankTokens(Tail(line)) ELSE line

RECURSIVE DropBlankLines(_)
DropBlankLines(text) ==
    IF Len(text) > 1 /\ IsBlankLine(text[1]) THEN DropBlankLines(Tail(text))
    ELSE text

Reverse(s) ==
    [i \in 1..Len(s) |-> s[Len(s) + 1 - i]]

\* str.lstrip
LStrip(text) ==
    IF \A i \in 1..Len(text) : IsBlankLine(text[i]) THEN EmptyText
    ELSE LET rest == DropBlankLines(text)
         IN <<DropBlankTokens(rest[1])>> \o Tail(rest)

\* str.strip
Strip(text) ==
    LET left == LStrip(text)
        mirrored == [i \in 1..Len(left) |-> Reverse(left[Len(left) + 1 - i])]
        right == LStrip(mirrored)
    IN [i \in 1..Len(right) |-> Reverse(right[Len(right) + 1 - i])]

\* f"{result.stdout}\n{result.stderr}".strip()
combined_output(stdout, stderr) ==
    Strip(stdout \o stderr)

\* how the subprocess of _execute_test_command ends
Exit(returncode, stdout, stderr) ==
    [kind |-> "exit", returncode |-> returncode, stdout |-> stdout,
     stderr |-> stderr]

TimeoutExpired ==
    [kind |-> "timeout", returncode |-> 0, stdout |-> EmptyText,
     stderr |-> EmptyText]

\* another exception of subprocess.run, with its message in stderr
Raised(message) ==
    [kind |-> "raised", returncode |-> 0, stdout |-> EmptyText,
     stderr |-> message]

\* TestResult of _execute_test_command; exit code -1 marks a run that did not
\* finish
TestResult(passed, output, error_message, exit_code, command_used) ==
    [passed |-> passed, output |-> output, error_message |-> error_message,
     exit_code |-> exit_code, command_used |-> command_used]

\* _execute_test_command reporting exit_code=1 for every failed run
execute_test_command_exit_one(cmd, outcome) ==
    CASE outcome.kind = "exit" ->
           LET combined == combined_output(outcome.stdout, outcome.stderr)
           IN IF outcome.returncode = 0
              THEN TestResult(TRUE, combined, NoText, 0, cmd)
              ELSE TestResult(FALSE, combined, extract_error_message(combined),
                              1, cmd)
      [] outcome.kind = "timeout" ->
           TestResult(FALSE, EmptyText, TimeoutMessage, -1, cmd)
      [] outcome.kind = "raised" ->
           TestResult(FALSE, EmptyText, outcome.stderr, -1, cmd)

execute_test_command(cmd, outcome) ==
    CASE outcome.kind = "exit" ->
           LET combined == combined_output(outcome.stdout, outcome.stderr)
           IN IF outcome.returncode = 0
              THEN TestResult(TRUE, combined, NoText, 0, cmd)
              ELSE TestResult(FALSE, combined, extract_error_message(combined),
                              outcome.returncode, cmd)
      [] outcome.kind = "timeout" ->
           TestResult(FALSE, EmptyText, TimeoutMessage, -1, cmd)
      [] outcome.kind = "raised" ->
           TestResult(FALSE, EmptyText, outcome.stderr, -1, cmd)

\* _install_dependencies: exit_code keeps its default 0 on success
install_dependencies(cmd, outcome) ==
    CASE outcome.kind = "exit" ->
           IF outcome.returncode # 0
           THEN TestResult(FALSE, outcome.stdout,
                           IF Truthy(outcome.stderr) THEN outcome.stderr
                           ELSE outcome.stdout,
                           outcome.returncode, cmd)
           ELSE TestResult(TRUE, outcome.stdout, NoText, 0, cmd)
      [] outcome.kind = "timeout" ->
           TestResult(FALSE, EmptyText, InstallTimeoutMessage, -1, cmd)
      [] outcome.kind = "raised" ->
           TestResult(FALSE, EmptyText, outcome.stderr, -1, cmd)

\* TestRunner.run_tests: the result, and the commands that were executed
run_tests(language, install_deps, test_files, test_path, install, outcome) ==
    LET install_cmd == install_command(language)
        install_result == install_dependencies(install_cmd, install)
        cmd == run_tests_command(language, test_files, test_path)
    IN IF install_deps /\ ~install_result.passed
       THEN [result |-> install_result, commands |-> <<install_cmd>>]
       ELSE [result |-> execute_test_command(cmd, outcome),
             commands |-> IF install_deps THEN <<install_cmd, cmd>>
                          ELSE <<cmd>>]

\* run_tests_for_language: the (success, error_output) pair, with the
\* commands that were executed
RunReturn(success, error_output, command) ==
    [success |-> success, error_output |-> error_output, command |-> command]

\* the install_deps argument run_tests_for_language gives to TestRunner
InstallDeps == FALSE

\* run_tests_for_language taking a language without commands as nothing to run
run_tests_for_language_none_to_run(dir, language, install_outcome, outcome) ==
    LET test_files == {RelativeToRepo(f.name) : f \in dir}
    IN IF test_files = {} \/ LowerLanguage(language) \notin TEST_COMMANDS
       THEN RunReturn(TRUE, EmptyText, <<>>)
       ELSE LET run == run_tests(LowerLanguage(language), InstallDeps,
                                 test_files, DefaultTestPath,
                                 install_outcome, outcome)
                r == run.result
            IN IF r.passed
               THEN RunReturn(TRUE, EmptyText, run.commands)
               ELSE RunReturn(FALSE,
                              IF Truthy(r.error_message) THEN r.error_message
                              ELSE r.output,
                              run.commands)

run_tests_for_language(dir, language, install_outcome, outcome) ==
    IF LowerLanguage(language) \notin TEST_COMMANDS
    THEN RunReturn(FALSE, UnsupportedMessage(language), <<>>)
    ELSE LET test_files == {RelativeToRepo(f.name) : f \in dir}
         IN IF test_files = {}
            THEN RunReturn(TRUE, EmptyText, <<>>)
            ELSE LET run == run_tests(LowerLanguage(language), InstallDeps,
                                      test_files, DefaultTestPath,
                                      install_outcome, outcome)
                     r == run.result
                 IN IF r.passed
                    THEN RunReturn(TRUE, EmptyText, run.commands)
                    ELSE RunReturn(FALSE,
                                   IF Truthy(r.error_message) THEN r.error_message
                                   ELSE r.output,
                                   run.commands)

\* the outputs a test command may leave on stderr
Failure1 ==
    << <<"1", "failed">> >>

FailureA ==
    << <<"TypeError:", "foo", "undefined">>, <<"", "at", "line", "42">>, <<"">> >>

FailureA2 ==
    << <<"ok">>, <<"TypeError:", "foo", "undefined">>, <<"", "at", "line", "1">> >>

\* one line of 4100 characters
FailureLong ==
    << <<"x*4100">> >>

\* how the subprocess of one attempt may end
RunOutcomes ==
    {Exit(0, << <<"PASS">>, <<"">> >>, EmptyText),
     Exit(1, EmptyText, EmptyText),
     Exit(1, << <<"FAIL">>, <<"">> >>, Failure1),
     Exit(1, EmptyText, FailureA),
     Exit(1, EmptyText, FailureA2),
     Exit(2, EmptyText, FailureLong),
     TimeoutExpired,
     Raised(<< <<"Cannot", "find", "foo">> >>)}

\* how the install command may end, when it is run
InstallOutcomes ==
    {Exit(0, EmptyText, EmptyText),
     Exit(1, EmptyText, << <<"Cannot", "find", "foo">> >>)}

\* the install command is not run
NotRun ==
    [kind |-> "not_run", returncode |-> 0, stdout |-> EmptyText,
     stderr |-> EmptyText]

\* how the install step of one attempt of the loop may end
LoopInstallOutcomes ==
    IF InstallDeps THEN InstallOutcomes ELSE {NotRun}

\* the install commands among the commands executed
Installs(commands) ==
    Cardinality({i \in 1..Len(commands) : commands[i].template = "install"})

-----------------------------------------------------------------------------
(* The feedback handed to the generator *)

\* the characters error_output[:n] keeps
FeedbackChars == 4000

\* w[:k] for a cut inside a token, for the tokens of Vocab that have a prefix in
\* Vocab
HeadPairs ==
    {<<"FAILED", 4, "FAIL">>, <<"120s", 1, "1">>,
     <<"x*4100", FeedbackChars, "x*4000">>}

TokenHead(w, k) ==
    IF k = 0 THEN "" ELSE CHOOSE h \in Vocab : <<w, k, h>> \in HeadPairs

RECURSIVE LineChars(_)
LineChars(line) ==
    IF Len(line) = 1 THEN WordLen(line[1])
    ELSE WordLen(line[1]) + 1 + LineChars(Tail(line))

\* the tokens i.. of a line that fit in n characters
RECURSIVE SliceTokens(_, _, _)
SliceTokens(line, i, n) ==
    IF i > Len(line) THEN <<>>
    ELSE LET sp == IF i > 1 THEN 1 ELSE 0
         IN IF n < sp THEN <<>>
            ELSE IF WordLen(line[i]) <= n - sp
                 THEN <<line[i]>> \o SliceTokens(line, i + 1,
                                                 n - sp - WordLen(line[i]))
                 ELSE <<TokenHead(line[i], n - sp)>>

\* the lines i.. of a text that fit in n characters
RECURSIVE SliceLines(_, _, _)
SliceLines(text, i, n) ==
    IF i > Len(text) THEN <<>>
    ELSE LET nl == IF i > 1 THEN 1 ELSE 0
         IN IF n < nl THEN <<>>
            ELSE IF LineChars(text[i]) <= n - nl
                 THEN <<text[i]>> \o SliceLines(text, i + 1,
                                                n - nl - LineChars(text[i]))
                 ELSE <<SliceTokens(text[i], 1, n - nl)>>

\* text[:n]
Slice(text, n) == SliceLines(text, 1, n)

\* the three shapes of revision_feedback: None, the developer's feedback, and
\* the retry prompt built around error_output[:4000] and the language
NoFeedback ==
    [kind |-> "none", error_output |-> NoText, language |-> None]

DeveloperFeedback ==
    [kind |-> "developer", error_output |-> NoText, language |-> None]

RetryFeedback(error_output, language) ==
    [kind |-> "retry", error_output |-> Slice(error_output, FeedbackChars),
     language |-> language]

-----------------------------------------------------------------------------
(* The retry loop: workflow_runner._run_main *)

\* range(1, args.max_retries + 3): one attempt too many
attempt_range_wide(retries) == 1..(retries + 2)

\* range(1, args.max_retries + 2)
attempt_range(retries) == 1..(retries + 1)

\* the for statement: the body runs again while the range has a next value
NextIteration(n, retries) ==
    IF n + 1 \in attempt_range(retries) THEN "generate" ELSE "report"

WorkflowResult ==
    [tests_pass |-> FALSE, has_tests |-> FALSE, attempts |-> 0,
     language |-> "unknown", generated_files |-> <<>>, skip_reason |-> None,
     error |-> None, is_revision |-> FALSE, stopped_early |-> FALSE]

\* history of one attempt: what the generator gave, whether files were written,
\* whether a test command was spawned, how the execution went, and the commands
\* that were executed
Attempt(index, generation, wrote, spawned, execution, error_output) ==
    [index |-> index, generation |-> generation, wrote |-> wrote,
     spawned |-> spawned, execution |-> execution, error_output |-> error_output,
     commands |-> <<>>]

NoAttempt == Attempt(0, "none", FALSE, FALSE, "none", NoText)

\* how often the generator, run_tests_for_language, a subprocess and the
\* install command were run
NoCalls == [generator |-> 0, runner |-> 0, subprocess |-> 0, install |-> 0]

NoCall == [name |-> "none", args |-> <<>>, value |-> <<>>]

\* the languages the aggregator may detect
RepoLanguages == {"javascript", "java", "unknown"}

\* the retry loop not started
LoopIdle ==
    /\ max_retries = 0
    /\ developer_feedback = FALSE
    /\ repo_language = "unknown"
    /\ pc = "idle"
    /\ attempt = 0
    /\ result = WorkflowResult
    /\ previous_error = NoText
    /\ revision_feedback = NoFeedback
    /\ pipeline_result = NoPipelineResult
    /\ test_dir = {}
    /\ output_json = <<>>
    /\ cur = NoAttempt
    /\ prev = NoAttempt
    /\ calls = NoCalls
    /\ vl = [pc |-> "idle", attempts |-> 0]

Init ==
    /\ max_retries \in 0..MaxRetries
    /\ developer_feedback \in BOOLEAN
    /\ repo_language \in RepoLanguages
    /\ pc = NextIteration(0, max_retries)
    /\ attempt = 0
    /\ result = [WorkflowResult EXCEPT !.is_revision = developer_feedback]
    /\ previous_error = NoText
    /\ revision_feedback =
           IF developer_feedback THEN DeveloperFeedback ELSE NoFeedback
    /\ pipeline_result = NoPipelineResult
    /\ test_dir \in InitialDirs
    /\ output_json = <<>>
    /\ cur = NoAttempt
    /\ prev = NoAttempt
    /\ calls = NoCalls
    /\ vl = [pc |-> "idle", attempts |-> 0]
    /\ fn = NoCall

\* the loop body without its check of has_tests
after_generation_unchecked(has) == "write"

\* the loop body with continue in place of break when there are no tests
after_generation_continue(has) ==
    IF has THEN "write" ELSE "generate"

\* the loop body with the test of has_tests negated
after_generation_inverted(has) ==
    IF has THEN "report" ELSE "write"

\* the branch taken after pipeline.run returned: the loop is left when there
\* are no tests
after_generation(has) ==
    IF has THEN "write" ELSE "report"

\* the loop body without its break on success
after_run_without_success(success, previous, error_output) ==
    IF Truthy(previous)
       /\ errors_are_similar(previous, error_output, DefaultThresholdNum,
                             DefaultThresholdDen)
    THEN "stopped_early"
    ELSE "retry"

\* the loop body comparing the two errors for equality
after_run_equal_errors(success, previous, error_output) ==
    IF success THEN "passed"
    ELSE IF Truthy(previous) /\ previous = error_output
         THEN "stopped_early"
         ELSE "retry"

\* the loop body with previous_error = error_output placed before the
\* comparison: the error is compared with itself
after_run_assigned_first(success, previous, error_output) ==
    IF success THEN "passed"
    ELSE IF Truthy(error_output)
            /\ errors_are_similar(error_output, error_output, DefaultThresholdNum,
                                  DefaultThresholdDen)
         THEN "stopped_early"
         ELSE "retry"

\* the branch taken after run_tests_for_language returned
after_run(success, previous, error_output) ==
    IF success THEN "passed"
    ELSE IF Truthy(previous)
            /\ errors_are_similar(previous, error_output, DefaultThresholdNum,
                                  DefaultThresholdDen)
         THEN "stopped_early"
         ELSE "retry"

\* the no-tests branch also clearing what an earlier attempt recorded
record_generation_reset(r, p) ==
    IF has_tests(p) THEN [r EXCEPT !.has_tests = TRUE]
    ELSE LET cleared == [r EXCEPT !.has_tests = FALSE, !.generated_files = <<>>]
         IN  IF TruthyStr(p.skip_reason)
             THEN [cleared EXCEPT !.skip_reason = p.skip_reason]
             ELSE IF TruthyStr(p.error)
                  THEN [cleared EXCEPT !.error = p.error]
                  ELSE cleared

\* what the loop body records in the result after pipeline.run returned p:
\* has_tests when there are tests, else the skip reason or the error
record_generation(r, p) ==
    IF has_tests(p) THEN [r EXCEPT !.has_tests = TRUE]
    ELSE IF TruthyStr(p.skip_reason)
         THEN [r EXCEPT !.skip_reason = p.skip_reason]
         ELSE IF TruthyStr(p.error)
              THEN [r EXCEPT !.error = p.error]
              ELSE r

\* one call of pipeline.run and the check of has_tests.  An exception that
\* pipeline.run lets through ends the process in main's handler.  The guard
\* on attempt keeps the counter of the model finite; the loop stays below it.
Generate(outcome) ==
    /\ pc = "generate"
    /\ attempt <= max_retries + 1
    /\ attempt' = attempt + 1
    /\ calls' = [calls EXCEPT !.generator = @ + 1]
    /\ prev' = [cur EXCEPT !.commands = <<>>]
    /\ IF outcome.kind = "raised"
       THEN /\ result' = [result EXCEPT !.attempts = attempt']
            /\ cur' = Attempt(attempt', "raised", FALSE, FALSE, "none", NoText)
            /\ pc' = "fatal"
            /\ UNCHANGED pipeline_result
       ELSE LET p == PipelineResult(outcome, repo_language)
                r == [result EXCEPT !.attempts = attempt',
                                    !.language = p.detected_language]
            IN /\ pipeline_result' = p
               /\ pc' = after_generation(has_tests(p))
               /\ cur' = Attempt(attempt',
                                 IF has_tests(p) THEN "tests" ELSE "no_tests",
                                 FALSE, FALSE, "none", NoText)
               /\ result' = record_generation(r, p)
    /\ UNCHANGED <<max_retries, developer_feedback, repo_language,
                   previous_error, revision_feedback, test_dir, output_json,
                   vl, fn>>

\* step 2 of the loop body: stale *.test.js files are removed from the second
\* attempt on, then every generated test is written under its base name
WriteTests ==
    /\ pc = "write"
    /\ LET tests == generated_tests(pipeline_result)
           dir == IF attempt > 1 THEN CleanStale(test_dir) ELSE test_dir
       IN /\ test_dir' = WriteFiles(dir, tests, 1, attempt)
          /\ result' = [result EXCEPT !.generated_files = FileList(tests)]
    /\ cur' = [cur EXCEPT !.wrote = TRUE]
    /\ pc' = "run"
    /\ UNCHANGED <<max_retries, developer_feedback, repo_language, attempt,
                   previous_error, revision_feedback, pipeline_result,
                   output_json, prev, calls, vl, fn>>

\* steps 3 to 5 of the loop body: the tests are run, and the loop is left on
\* success or on a repeated error; otherwise the next prompt is prepared, or,
\* on the last attempt, the failure is recorded
RunTests(install_outcome, outcome) ==
    /\ pc = "run"
    /\ LET r == run_tests_for_language(test_dir, result.language,
                                       install_outcome, outcome)
           branch == after_run(r.success, previous_error, r.error_output)
       IN /\ calls' = [calls EXCEPT
                          !.runner = @ + 1,
                          !.subprocess = @ + Len(r.command),
                          !.install = @ + Installs(r.command)]
          /\ cur' = [cur EXCEPT
                        !.spawned = r.command # <<>>,
                        !.execution = IF r.success THEN "passed" ELSE "failed",
                        !.error_output = r.error_output,
                        !.commands = r.command]
          /\ CASE branch = "passed" ->
                    /\ result' = [result EXCEPT !.tests_pass = TRUE]
                    /\ pc' = "report"
                    /\ UNCHANGED <<previous_error, revision_feedback>>
               [] branch = "stopped_early" ->
                    /\ result' =
                           [result EXCEPT
                               !.stopped_early = TRUE,
                               !.error = "Same error occurred twice - stopping early"]
                    /\ pc' = "report"
                    /\ UNCHANGED <<previous_error, revision_feedback>>
               [] branch = "retry" ->
                    /\ previous_error' = r.error_output
                    /\ IF attempt <= max_retries
                       THEN /\ revision_feedback' =
                                   RetryFeedback(r.error_output, result.language)
                            /\ UNCHANGED result
                       ELSE /\ result' =
                                   [result EXCEPT !.error =
                                       "Tests failed validation after all retry attempts"]
                            /\ UNCHANGED revision_feedback
                    /\ pc' = NextIteration(attempt, max_retries)
    /\ UNCHANGED <<max_retries, developer_feedback, repo_language, attempt,
                   pipeline_result, test_dir, output_json, prev, vl, fn>>

\* after the loop: the result is written as JSON when --output-json is given,
\* and the process exits with code 0
Report ==
    /\ pc = "report"
    /\ \E given \in BOOLEAN :
           output_json' = IF given THEN <<result>> ELSE <<>>
    /\ pc' = "exited"
    /\ UNCHANGED <<max_retries, developer_feedback, repo_language, attempt,
                   result, previous_error, revision_feedback, pipeline_result,
                   test_dir, cur, prev, calls, vl, fn>>

\* ValidationLoop.run, the other entry point, taken instead of _run_main:
\* TestRunner is constructed without its repo_path argument, so the call
\* raises TypeError before the first attempt
ValidationLoopRun ==
    /\ pc = "generate"
    /\ attempt = 0
    /\ vl.pc = "idle"
    /\ vl' = [pc |-> "TypeError", attempts |-> 0]
    /\ pc' = "idle"
    /\ UNCHANGED <<max_retries, developer_feedback, repo_language, attempt,
                   result, previous_error, revision_feedback, pipeline_result,
                   test_dir, output_json, cur, prev, calls, fn>>

\* a step of _run_main
LoopStep ==
    \/ \E outcome \in PipelineOutcomes : Generate(outcome)
    \/ WriteTests
    \/ \E install_outcome \in LoopInstallOutcomes, outcome \in RunOutcomes :
           RunTests(install_outcome, outcome)
    \/ Report

Next ==
    \/ \E outcome \in PipelineOutcomes : Generate(outcome)
    \/ WriteTests
    \/ \E install_outcome \in LoopInstallOutcomes, outcome \in RunOutcomes :
           RunTests(install_outcome, outcome)
    \/ Report
    \/ ValidationLoopRun

Spec == Init /\ [][Next]_vars

\* every call of the generator and of the test command returns, and the
\* process keeps running until it exits
FairSpec == Init /\ [][Next]_vars /\ WF_vars(LoopStep)

\* the process has ended: _run_main has exited, or ValidationLoop.run has raised
Terminated == pc \in {"exited", "fatal"} \/ vl.pc = "TypeError"

-----------------------------------------------------------------------------
(* The same-error detector on drawn inputs *)

\* the words of the drawn messages: the empty word (a doubled space), a
\* number, a two-letter word, a stopword in two cases, and three keywords
SimVocab ==
    {"", "1", "at", "failed", "FAILED", "foo", "bar", "baz"}

\* one-line messages of at most MaxWords space-separated words
SimTexts ==
    {<<line>> : line \in UNION {[1..n -> SimVocab] : n \in 1..MaxWords}}

Input(args) == [name |-> "input", args |-> args, value |-> <<>>]

Call(name, args, value) == [name |-> name, args |-> args, value |-> value]

InitSim ==
    /\ LoopIdle
    /\ \E x \in SimTexts, y \in SimTexts : fn = Input(<<x, y>>)

\* the thresholds given to errors_are_similar, as fractions: 0.0, 0.5, the
\* default 0.6, and 1.0
Thresholds ==
    {<<0, 1>>, <<1, 2>>, <<DefaultThresholdNum, DefaultThresholdDen>>, <<1, 1>>}

CallErrorsAreSimilar(threshold) ==
    /\ fn.name = "input"
    /\ fn' = Call("errors_are_similar",
                  <<fn.args[1], fn.args[2], threshold[1], threshold[2]>>,
                  errors_are_similar(fn.args[1], fn.args[2],
                                     threshold[1], threshold[2]))
    /\ UNCHANGED loop_vars

NextSim == \E threshold \in Thresholds : CallErrorsAreSimilar(threshold)

SpecSim == InitSim /\ [][NextSim]_vars

-----------------------------------------------------------------------------
(* The excerpt extractors on drawn inputs *)

\* a raw output of n lines: filler lines, with the line hit at first,
\* first + period, ...
RawOutput(n, first, period, hit) ==
    [i \in 1..n |->
        IF i >= first /\ (i - first) % period = 0 THEN hit ELSE <<"ok">>]

\* the lines that carry a keyword of an extractor
HitLines ==
    {<<"Error:", "foo">>, <<"1", "FAILED">>, <<"", "TypeError:", "bar", "">>}

RawOutputs ==
    {RawOutput(n, first, period, hit) :
        n \in 1..MaxRawLines,
        first \in {1, 3, MaxRawLines + 1},
        period \in {1, 7, MaxRawLines + 1},
        hit \in HitLines}

\* the language tags given to extract_error_lines
ExtractLanguages == {"javascript", "typescript", "go", "python", "unknown"}

InitExtract ==
    /\ LoopIdle
    /\ \E output \in RawOutputs : fn = Input(<<output>>)

CallExtractErrorLines(language) ==
    /\ fn.name = "input"
    /\ fn' = Call("extract_error_lines", <<fn.args[1], language>>,
                  extract_error_lines(fn.args[1], language))
    /\ UNCHANGED loop_vars

CallExtractErrorMessage ==
    /\ fn.name = "input"
    /\ fn' = Call("extract_error_message", fn.args,
                  extract_error_message(fn.args[1]))
    /\ UNCHANGED loop_vars

NextExtract ==
    \/ \E language \in ExtractLanguages : CallExtractErrorLines(language)
    \/ CallExtractErrorMessage

SpecExtract == InitExtract /\ [][NextExtract]_vars

-----------------------------------------------------------------------------
(* The scorers on drawn inputs *)

\* the fragments a consumer test in the language is drawn from
Family(language) ==
    CASE language = "go" -> GoFrags
      [] language \in {"typescript", "javascript", "TypeScript"} -> TsFrags
      [] language \in {"java", "kotlin"} -> JvmFrags
      [] language = "python" -> PyFrags
      [] OTHER -> {"it("}

\* the language tags given to the scorers, two of them unknown to both
ScoreLanguages == KnownLanguages \cup {"TypeScript", "rust", ""}

UnbalancedCount == [BalancedCount EXCEPT !["{"] = 5]

\* the codes drawn for OutputParser.parse
ConsumerCodes(language) ==
    {[blank |-> FALSE, lines |-> n, frags |-> core \cup extra, count |-> c,
      comment_lines |-> IF n = MaxCodeLines THEN 4 ELSE 0] :
        n \in {MinLines - 1, MinLines, MaxCodeLines},
        core \in SUBSET Family(language),
        extra \in {{}, CommonFrags},
        c \in {BalancedCount, UnbalancedCount}}
    \cup {BlankCode}

\* the codes drawn for the provider validator
ProviderCodes(language) ==
    {[blank |-> FALSE, lines |-> MaxCodeLines, frags |-> f,
      count |-> BalancedCount, comment_lines |-> 0] :
        f \in IF language \in {"javascript", "typescript"}
              THEN SUBSET (ProviderFrags \cup {"it("})
              ELSE SUBSET ProviderOtherFrags}

ExpectedStates ==
    {<<>>, <<"item exists">>, <<"user's cart", "no items">>}

InitScore ==
    /\ LoopIdle
    /\ \E language \in ScoreLanguages :
          \/ \E code \in ConsumerCodes(language) : fn = Input(<<code, language>>)
          \/ \E code \in ProviderCodes(language), states \in ExpectedStates :
                 fn = Input(<<code, language, states>>)

CallParse ==
    /\ fn.name = "input"
    /\ Len(fn.args) = 2
    /\ fn' = Call("parse", fn.args, parse(fn.args[1], fn.args[2]))
    /\ UNCHANGED loop_vars

\* _calculate_score on the report of a parse with one more issue of the
\* severity: the flags of the report are as they were
AddIssue(severity) ==
    /\ fn.name = "parse"
    /\ LET report == [fn.value EXCEPT
                         !.issues = Append(@, QualityIssue(severity, "added"))]
       IN fn' = Call("calculate_score", <<fn.value>>,
                     [report EXCEPT !.quality_score = calculate_score(report)])
    /\ UNCHANGED loop_vars

CallValidate ==
    /\ fn.name = "input"
    /\ Len(fn.args) = 3
    /\ fn' = Call("validate_generated_code", fn.args,
                  validate_generated_code(fn.args[1], fn.args[3], fn.args[2]))
    /\ UNCHANGED loop_vars

\* generate from its validation step on, the file write succeeding or raising
CallGenerate(write_ok) ==
    /\ fn.name = "input"
    /\ Len(fn.args) = 3
    /\ fn' = Call("generate", fn.args \o <<write_ok>>,
                  generate_validated(fn.args[1], fn.args[3], fn.args[2], write_ok))
    /\ UNCHANGED loop_vars

NextScore ==
    \/ CallParse
    \/ \E severity \in {"error", "warning"} : AddIssue(severity)
    \/ CallValidate
    \/ \E write_ok \in BOOLEAN : CallGenerate(write_ok)

SpecScore == InitScore /\ [][NextScore]_vars

-----------------------------------------------------------------------------
(* The test runner on drawn subprocess outcomes *)

\* return codes of the child: success, failures, command not found, the
\* largest code, and death by signal (SIGHUP, SIGKILL)
ReturnCodes == {0, 1, 2, 127, 255, -1, -9}

\* what the child may leave on stdout and stderr
ProcessOutputs ==
    {<<EmptyText, EmptyText>>,
     << << <<"PASS">>, <<"">> >>, EmptyText >>,
     <<EmptyText, FailureA>>,
     << << <<"FAIL">>, <<"">> >>, Failure1 >>}

\* how subprocess.run may end
ProcessOutcomes ==
    {Exit(code, out[1], out[2]) : code \in ReturnCodes, out \in ProcessOutputs}
    \cup {TimeoutExpired, Raised(<< <<"Cannot", "find", "foo">> >>)}

RunnerLanguages == {"javascript", "java"}

\* the test_files lists given to run_tests
TestFileLists ==
    {{RelativeToRepo("items.pact.test.js")},
     {RelativeToRepo("items.pact.test.js"), RelativeToRepo("pact-helpers.js")}}

InitRunner ==
    /\ LoopIdle
    /\ \E language \in RunnerLanguages, test_files \in TestFileLists,
          outcome \in ProcessOutcomes :
           fn = Input(<<language, test_files, outcome>>)

CallExecuteTestCommand ==
    /\ fn.name = "input"
    /\ LET cmd == run_tests_command(fn.args[1], fn.args[2], DefaultTestPath)
       IN fn' = Call("execute_test_command", <<cmd, fn.args[3]>>,
                     execute_test_command(cmd, fn.args[3]))
    /\ UNCHANGED loop_vars

CallInstallDependencies ==
    /\ fn.name = "input"
    /\ LET cmd == install_command(fn.args[1])
       IN fn' = Call("install_dependencies", <<cmd, fn.args[3]>>,
                     install_dependencies(cmd, fn.args[3]))
    /\ UNCHANGED loop_vars

CallRunTests(install_deps, install_outcome) ==
    /\ fn.name = "input"
    /\ fn' = Call("run_tests",
                  <<fn.args[1], install_deps, fn.args[2], install_outcome,
                    fn.args[3]>>,
                  run_tests(fn.args[1], install_deps, fn.args[2],
                            DefaultTestPath, install_outcome, fn.args[3]))
    /\ UNCHANGED loop_vars

NextRunner ==
    \/ CallExecuteTestCommand
    \/ CallInstallDependencies
    \/ \E install_deps \in BOOLEAN, install_outcome \in InstallOutcomes :
           CallRunTests(install_deps, install_outcome)

SpecRunner == InitRunner /\ [][NextRunner]_vars

-----------------------------------------------------------------------------
(* The consumer scorer on two drawn codes of one language *)

PairLanguages == {"python", "rust"}

\* the codes of a pair: every set of fragments of the language, in code that
\* is long enough and balanced
PairCodes(language) ==
    {[blank |-> FALSE, lines |-> MaxCodeLines, frags |-> core,
      count |-> BalancedCount, comment_lines |-> 0] :
        core \in SUBSET Family(language)}

InitPair ==
    /\ LoopIdle
    /\ \E language \in PairLanguages :
          \E code1 \in PairCodes(language), code2 \in PairCodes(language) :
              fn = Input(<<code1, code2, language>>)

CallParsePair ==
    /\ fn.name = "input"
    /\ fn' = Call("parse_pair", fn.args,
                  <<parse(fn.args[1], fn.args[3]), parse(fn.args[2], fn.args[3])>>)
    /\ UNCHANGED loop_vars

\* _calculate_score on the first report of the pair with one more issue
AddIssueToFirst(severity) ==
    /\ fn.name = "parse_pair"
    /\ LET report == [fn.value[1] EXCEPT
                         !.issues = Append(@, QualityIssue(severity, "added"))]
       IN fn' = Call("calculate_score", <<fn.value[1]>>,
                     [report EXCEPT !.quality_score = calculate_score(report)])
    /\ UNCHANGED loop_vars

NextPair ==
    \/ CallParsePair
    \/ \E severity \in {"error", "warning"} : AddIssueToFirst(severity)

SpecPair == InitPair /\ [][NextPair]_vars

-----------------------------------------------------------------------------
(* Properties *)

\* whether one of the tests holds one of the hallucinated_patterns, the
\* patterns the provider validator reports as CRITICAL
Denylisted(tests) ==
    \E i \in 1..Len(tests), j \in 1..Len(hallucinated_patterns) :
        Contains(hallucinated_patterns[j], tests[i].code)

\* C1: in every reachable state of the retry loop the attempt counter is at
\* most max_retries + 1, whatever the generator and the test runner return;
\* the same holds of ValidationLoop.run, which never starts an attempt.
C1_AttemptsBounded ==
    /\ result.attempts <= max_retries + 1
    /\ attempt <= max_retries + 1
    /\ vl.attempts <= max_retries + 1

\* the loop has used its whole budget: max_retries + 1 attempts, all failed
C1_BudgetUsed ==
    /\ pc = "exited"
    /\ max_retries = MaxRetries
    /\ result.attempts = max_retries + 1
    /\ result.error = "Tests failed validation after all retry attempts"

\* C2: with max_retries >= 1, when the executions of attempts 1 and 2 fail
\* with the same non-empty excerpt, the loop ends on attempt 2 with
\* stopped_early = true and attempts = 2.
C2_IdenticalExcerptsConverge ==
    (/\ max_retries >= 1
     /\ cur.index = 2
     /\ prev.execution = "failed"
     /\ cur.execution = "failed"
     /\ Truthy(cur.error_output)
     /\ cur.error_output = prev.error_output)
    => (/\ pc \in {"report", "exited"}
        /\ result.stopped_early
        /\ result.attempts = 2)

\* C3: the loop stops at the first attempt whose execution passes: tests_pass
\* is set, attempts is that attempt's index, and the generator has been called
\* that many times and is not called again.
C3_StopsAtFirstPass ==
    cur.execution = "passed"
    => (/\ pc \in {"report", "exited"}
        /\ result.tests_pass
        /\ result.attempts = cur.index
        /\ calls.generator = cur.index)

\* attempt 1 failed, attempt 2 passed, and the run ended there with a retry
\* left
C3_SecondAttemptPasses ==
    /\ pc = "exited"
    /\ max_retries = 2
    /\ prev.index = 1
    /\ prev.execution = "failed"
    /\ cur.index = 2
    /\ cur.execution = "passed"
    /\ result.tests_pass
    /\ result.attempts = 2
    /\ calls.generator = 2

\* C4: when the generator returns code with a denylisted pattern on attempt
\* 1, no test subprocess is spawned for it.
C4_DenylistedNeverRun ==
    (/\ cur.index = 1
     /\ cur.generation = "tests"
     /\ Denylisted(generated_tests(pipeline_result)))
    => (~cur.spawned /\ calls.subprocess = 0)

\* C5: errors_are_similar(x, x) is true for every non-empty x.
C5_Reflexive ==
    (/\ fn.name = "errors_are_similar"
     /\ fn.args[1] = fn.args[2]
     /\ Truthy(fn.args[1]))
    => fn.value

\* C6: the score of OutputParser, from parse and from _calculate_score, and
\* the score of the provider validator are in [0, 10] (0..100 in tenths) for
\* every code and every language tag.
C6_ScoreInRange ==
    /\ fn.name \in {"parse", "calculate_score"}
       => fn.value.quality_score \in 0..100
    /\ fn.name = "validate_generated_code" => fn.value.score \in 0..100

\* a parse whose bonuses exceed the range, returned as 10.0
C6_ClampedAtTen ==
    /\ fn.name = "parse"
    /\ RawScore(fn.value) > 100
    /\ fn.value.quality_score = 100

\* C7: one more Error-severity issue on a report, its flags unchanged, gives
\* a strictly lower score, or a score that stays at 0.
C7_ErrorLowersScore ==
    (/\ fn.name = "calculate_score"
     /\ fn.value.issues[Len(fn.value.issues)].severity = "error")
    => \/ fn.value.quality_score < fn.args[1].quality_score
       \/ (fn.value.quality_score = 0 /\ fn.args[1].quality_score = 0)

\* C8: the excerpt of either extractor has at most 30 lines, whether a
\* keyword was found or not.
C8_ExcerptAtMostThirtyLines ==
    fn.name \in {"extract_error_lines", "extract_error_message"}
    => Len(fn.value) <= 30

\* an output of more than 30 lines from whose keyword line on 30 lines are kept
C8_ExcerptCut ==
    /\ fn.name = "extract_error_message"
    /\ Len(fn.args[1]) > 30
    /\ \E kw \in error_indicators : KeywordIn(kw, fn.args[1][1])
    /\ Len(fn.value) = 30

\* C9: every run of the retry loop ends, given that every call of the
\* generator and of the test command returns.
C9_Terminates == <>Terminated

\* a run that ended after three failed attempts with different errors
C9_EndedAfterRetries ==
    /\ pc = "exited"
    /\ calls.generator = MaxRetries + 1
    /\ calls.runner = MaxRetries + 1
    /\ ~result.tests_pass
    /\ ~result.stopped_early

\* C10: when the generator yields no usable tests on attempt k, or
\* pipeline.run raises, the loop ends in that attempt: attempts is k, nothing
\* is written and no test command is run in attempt k, and the generator is
\* not called again.
C10_NoTestsEndsTheLoop ==
    cur.generation \in {"no_tests", "raised"}
    => (/\ pc \in {"report", "exited", "fatal"}
        /\ result.attempts = cur.index
        /\ calls.generator = cur.index
        /\ ~cur.wrote
        /\ ~cur.spawned
        /\ calls.runner = prev.index
        /\ \A f \in test_dir : f.attempt # cur.index)

\* the generator's second response could not be parsed, with a retry left
C10_ParseFailureOnRetry ==
    /\ pc = "exited"
    /\ max_retries = 2
    /\ cur.index = 2
    /\ cur.generation = "no_tests"
    /\ pipeline_result.generation_result = <<ParseFailure>>
    /\ result.attempts = 2
    /\ result.skip_reason = "JSON parse error"

\* C11: on every terminating path on which tests_pass is false, the record
\* written for the downstream steps carries a stop reason: skip_reason and
\* error are never both empty in it.
C11_NonSuccessHasReason ==
    (pc = "exited" /\ output_json # <<>> /\ ~output_json[1].tests_pass)
    => (TruthyStr(output_json[1].skip_reason) \/ TruthyStr(output_json[1].error))

\* C12: after the write step of an attempt k >= 2 the test directory holds no
\* file that an earlier attempt of this run wrote and attempt k did not write
\* again: every file of this run in the directory is one of attempt k.
C12_NoStaleArtifacts ==
    (cur.index >= 2 /\ cur.wrote)
    => \A f \in test_dir : f.attempt \in {0, cur.index}

\* C13: for every subprocess that ran to its end, the test runner reports
\* passed exactly when the child's exit code is 0, and reports the child's exit
\* code: no nonzero code is reported as a pass.
C13_PassedIffExitZero ==
    (/\ fn.name \in {"execute_test_command", "install_dependencies"}
     /\ fn.args[2].kind = "exit")
    => (/\ fn.value.passed <=> fn.args[2].returncode = 0
        /\ fn.value.exit_code = fn.args[2].returncode)

\* a test command that ended with exit code 2 is reported as failed with code 2
C13_ExitTwoReported ==
    /\ fn.name = "execute_test_command"
    /\ fn.args[2].kind = "exit"
    /\ fn.args[2].returncode = 2
    /\ ~fn.value.passed
    /\ fn.value.exit_code = 2

\* C14: the test runner reports exit_code -1 exactly when the command ran into
\* its timeout; no other cause produces -1.
C14_MinusOneIffTimeout ==
    fn.name \in {"execute_test_command", "install_dependencies"}
    => (fn.value.exit_code = -1 <=> fn.args[2].kind = "timeout")

\* C15: on every attempt, whatever the number of files in the test directory,
\* the test command the loop executes names the directory that holds the files
\* just written, or one of those files (its path, or its class name).
C15_CommandNamesArtifacts ==
    \A i \in 1..Len(cur.commands) :
        cur.commands[i].template \in {"test", "test_single"}
        => \/ cur.commands[i].argument = TestDirPath
           \/ \E f \in test_dir :
                  /\ f.attempt = cur.index
                  /\ cur.commands[i].argument
                         \in {RelativeToRepo(f.name), <<PathStem(f.name)>>}

\* C16: within one run of the loop that executes tests, the install command is
\* executed exactly once, with the first attempt's execution, and not again on
\* a later attempt.
C16_InstalledExactlyOnce ==
    /\ calls.subprocess - calls.install >= 1 => calls.install = 1
    /\ (cur.index >= 2 /\ cur.spawned) => Installs(cur.commands) = 0

\* C17: the detector never reports a match when either message is empty:
\* errors_are_similar("", y) and errors_are_similar(y, "") are false for every y.
C17_EmptyNeverSimilar ==
    (/\ fn.name = "errors_are_similar"
     /\ (fn.args[1] = EmptyText \/ fn.args[2] = EmptyText))
    => ~fn.value

\* the detector was called with an empty message and one that has keywords
C17_EmptyAgainstKeywords ==
    /\ fn.name = "errors_are_similar"
    /\ fn.args[1] = EmptyText
    /\ extract_keywords(fn.args[2]) = {"foo", "bar"}
    /\ ~fn.value

\* the keyword set as C18 words it: the lower-cased whitespace-separated
\* tokens, without the stopwords, the tokens of at most 2 characters and the
\* purely numeric tokens
Keywords(text) ==
    {w \in {Lower(v) : v \in SplitWords(text)} :
        ~(w \in common_words \/ WordLen(w) <= 2 \/ IsDigit(w))}

\* |A /\ B| / |A \/ B| >= num / den, for sets that are not both empty
JaccardAtLeast(A, B, num, den) ==
    Cardinality(A \cap B) * den >= num * Cardinality(A \cup B)

\* C18 as amended: for all messages and every threshold, errors_are_similar
\* returns true exactly when both keyword sets are non-empty and their Jaccard
\* similarity is at least the threshold.
C18_NonEmptyAndJaccard ==
    fn.name = "errors_are_similar"
    => LET A == Keywords(fn.args[1])
           B == Keywords(fn.args[2])
       IN fn.value <=> (/\ A # {}
                        /\ B # {}
                        /\ JaccardAtLeast(A, B, fn.args[3], fn.args[4]))

\* two messages that share one of two keywords are similar at threshold 0.5
C18_HalfAtHalf ==
    /\ fn.name = "errors_are_similar"
    /\ Cardinality(Keywords(fn.args[1]) \cap Keywords(fn.args[2])) = 1
    /\ Cardinality(Keywords(fn.args[1]) \cup Keywords(fn.args[2])) = 2
    /\ fn.args[3] = 1
    /\ fn.args[4] = 2
    /\ fn.value

\* C18: for all messages and every threshold, errors_are_similar returns true
\* exactly when the Jaccard similarity of the keyword sets is at least the
\* threshold (stated where the quotient is defined: some keyword exists).
C18_TrueIffJaccard ==
    (/\ fn.name = "errors_are_similar"
     /\ Keywords(fn.args[1]) \cup Keywords(fn.args[2]) # {})
    => (fn.value <=> JaccardAtLeast(Keywords(fn.args[1]), Keywords(fn.args[2]),
                                    fn.args[3], fn.args[4]))

\* C19: when the execution of an attempt fails, the outcome is decided in this
\* order: if a previous error exists and the detector reports a match, the loop
\* stops early, on the last permitted attempt too; otherwise, if no attempt is
\* left, it ends with attempts = max_retries + 1 and the exhaustion error;
\* otherwise the error is stored as previous_error and another attempt starts.
C19_FailureDecidedInOrder ==
    cur.execution = "failed"
    => IF /\ prev.index >= 1
          /\ Truthy(prev.error_output)
          /\ errors_are_similar(prev.error_output, cur.error_output,
                                DefaultThresholdNum, DefaultThresholdDen)
       THEN /\ pc \in {"report", "exited"}
            /\ result.stopped_early
            /\ result.attempts = cur.index
            /\ result.error = "Same error occurred twice - stopping early"
       ELSE IF cur.index = max_retries + 1
            THEN /\ pc \in {"report", "exited"}
                 /\ ~result.stopped_early
                 /\ result.attempts = max_retries + 1
                 /\ result.error =
                        "Tests failed validation after all retry attempts"
            ELSE /\ pc = "generate"
                 /\ ~result.stopped_early
                 /\ previous_error = cur.error_output
                 /\ attempt = cur.index
                 /\ cur.index <= max_retries

\* the last permitted attempt failed with an error similar to, and different
\* from, the one before: the run stopped early, not as exhausted
C19_ConvergedOnLastAttempt ==
    /\ pc = "exited"
    /\ max_retries >= 1
    /\ cur.index = max_retries + 1
    /\ cur.execution = "failed"
    /\ prev.error_output # cur.error_output
    /\ result.stopped_early

\* C20: for every attempt k >= 2 the feedback given to the generator holds the
\* error of attempt k-1 complete and unmodified, whatever its length; on
\* attempt 1 of a run without developer feedback the generator gets none.
C20_FeedbackHoldsWholeError ==
    (cur.index >= 1 /\ cur.execution = "none")
    => IF cur.index = 1
       THEN ~developer_feedback => revision_feedback = NoFeedback
       ELSE /\ revision_feedback.kind = "retry"
            /\ revision_feedback.error_output = prev.error_output

\* C21: the generator is called exactly once per attempt: when a run has ended
\* the number of generator calls is result.attempts, and in no attempt is the
\* test runner called before that attempt's generator call returned tests and
\* its files were written.
C21_OneGenerationPerAttempt ==
    /\ calls.generator = attempt
    /\ pc \in {"report", "exited", "fatal"} => calls.generator = result.attempts
    /\ calls.runner <= calls.generator
    /\ cur.execution # "none" => (cur.generation = "tests" /\ cur.wrote)
    /\ pc = "run" => (cur.generation = "tests" /\ cur.wrote)

\* a run of two attempts: the first ran its tests, the second got none
C21_TwoCallsOneRun ==
    /\ pc = "exited"
    /\ result.attempts = 2
    /\ calls.generator = 2
    /\ calls.runner = 1
    /\ prev.execution = "failed"
    /\ cur.generation = "no_tests"

\* C22: for an unknown language tag the scorer still runs the balance check:
\* code with unequal counts of a pair of delimiters gets a syntax issue in its
\* report, whatever the language tag.
C22_UnbalancedAlwaysReported ==
    (/\ fn.name = "parse"
     /\ LET c == fn.args[1].count
        IN c["{"] # c["}"] \/ c["("] # c[")"] \/ c["["] # c["]"])
    => \E i \in 1..Len(fn.value.issues) :
           fn.value.issues[i].rule
               \in {"syntax-braces", "syntax-parens", "syntax-brackets"}

\* C23: for every language tag, known or unknown, the report on empty code or
\* on code of fewer than 10 lines holds at least one issue of severity error.
C23_ShortCodeIsAnError ==
    (/\ fn.name = "parse"
     /\ (fn.args[1].blank \/ fn.value.line_count < MinLines))
    => \E i \in 1..Len(fn.value.issues) : fn.value.issues[i].severity = "error"

\* how often an issue occurs in a report's list of issues
IssueCount(issues, x) ==
    Cardinality({i \in 1..Len(issues) : issues[i] = x})

\* the two lists hold the same multiset of issues
SameIssues(a, b) ==
    \A x \in {a[i] : i \in 1..Len(a)} \cup {b[i] : i \in 1..Len(b)} :
        IssueCount(a, x) = IssueCount(b, x)

\* C24: the score is a function of the multiset of issues alone: two codes of
\* one language whose reports hold the same issues get the same score, and one
\* more error or warning never raises the score.
C24_ScoreFromIssuesAlone ==
    /\ (fn.name = "parse_pair"
        /\ SameIssues(fn.value[1].issues, fn.value[2].issues))
       => fn.value[1].quality_score = fn.value[2].quality_score
    /\ fn.name = "calculate_score"
       => fn.value.quality_score <= fn.args[1].quality_score

\* the generated code holds one of the denylisted (hallucinated) patterns
HasDenylisted(code) ==
    \E i \in 1..Len(hallucinated_patterns) : Contains(hallucinated_patterns[i], code)

\* C25: provider generation is vetoed exactly by critical findings, whatever the
\* score: code holding a denylisted pattern gives an unsuccessful result with no
\* output path and no file written; code holding none is written whenever the
\* write itself raises nothing, and the result is then successful, however many
\* non-critical issues it has and even at score 0.
C25_CriticalFindingsVeto ==
    fn.name = "generate" =>
        IF HasDenylisted(fn.args[1])
        THEN /\ ~fn.value.success
             /\ ~fn.value.written
             /\ fn.value.output_path = ""
        ELSE /\ fn.value.written = fn.args[4]
             /\ fn.value.success = fn.args[4]

\* a code with no denylisted pattern and score 0 was written
C25_ScoreZeroWritten ==
    /\ fn.name = "generate"
    /\ ~HasDenylisted(fn.args[1])
    /\ fn.value.quality_score = 0
    /\ Len(fn.value.quality_issues) >= 8
    /\ fn.value.written
    /\ fn.value.success

\* a code with a denylisted pattern and a score of at least 5.0 was refused
C25_HighScoreVetoed ==
    /\ fn.name = "generate"
    /\ HasDenylisted(fn.args[1])
    /\ fn.value.quality_score >= 50
    /\ ~fn.value.written

\* the lines of the output that carry one of the keywords or come at most
\* ContextLines lines after a line that does, in the order of the output
RECURSIVE WindowLines(_, _, _, _)
WindowLines(output, keywords, i, since) ==
    IF i > Len(output)
    THEN <<>>
    ELSE LET hit == \E kw \in keywords : KeywordIn(kw, output[i])
         IN  IF hit
             THEN <<output[i]>> \o WindowLines(output, keywords, i + 1, 0)
             ELSE IF since < ContextLines
             THEN <<output[i]>> \o WindowLines(output, keywords, i + 1, since + 1)
             ELSE WindowLines(output, keywords, i + 1, ContextLines)

\* s is t with some of its elements left out
RECURSIVE IsSubsequence(_, _)
IsSubsequence(s, t) ==
    IF s = <<>> THEN TRUE
    ELSE IF t = <<>> THEN FALSE
    ELSE IF Head(s) = Head(t) THEN IsSubsequence(Tail(s), Tail(t))
    ELSE IsSubsequence(s, Tail(t))

\* C26: when some line of the raw output carries a failure keyword, the excerpt
\* the loop uses, the error_message of TestRunner._extract_error_message, is
\* made only of keyword lines and of lines at most 5 lines after a keyword
\* line, in the order of the output.
C26_ExcerptWithinContext ==
    (/\ fn.name = "extract_error_message"
     /\ \E i \in 1..Len(fn.args[1]) :
            \E ind \in error_indicators : KeywordIn(ind, fn.args[1][i]))
        => IsSubsequence(fn.value,
                         WindowLines(fn.args[1], error_indicators, 1, ContextLines))

\* the same of extract_error_lines, the extractor the loop does not call
C26_ErrorLinesWithinContext ==
    (/\ fn.name = "extract_error_lines"
     /\ \E i \in 1..Len(fn.args[1]) :
            \E kw \in patterns(fn.args[2]) : KeywordIn(kw, fn.args[1][i]))
        => IsSubsequence(fn.value,
                         WindowLines(fn.args[1], patterns(fn.args[2]), 1, ContextLines))

\* C27: errors_are_similar is symmetric: at every threshold the verdict on
\* (a, b) is the verdict on (b, a).
C27_Symmetric ==
    fn.name = "errors_are_similar" =>
        fn.value = errors_are_similar(fn.args[2], fn.args[1], fn.args[3], fn.args[4])

\* two messages found similar at threshold 0.5, the keywords of the first a
\* proper part of the keywords of the second
C27_SimilarUnequalKeywords ==
    /\ fn.name = "errors_are_similar"
    /\ fn.args[3] = 1
    /\ fn.args[4] = 2
    /\ Keywords(fn.args[1]) # Keywords(fn.args[2])
    /\ Keywords(fn.args[1]) \subseteq Keywords(fn.args[2])
    /\ fn.value

\* C28: in the result record of every ended run the outcomes exclude each
\* other: tests_pass comes with stopped_early false and with no error and no
\* skip_reason; stopped_early comes with tests_pass false, at least 2 attempts
\* and has_tests true.
C28_OutcomesExclusive ==
    pc \in {"report", "exited"} =>
        /\ result.tests_pass =>
               /\ ~result.stopped_early
               /\ result.error = None
               /\ result.skip_reason = None
        /\ result.stopped_early =>
               /\ ~result.tests_pass
               /\ result.attempts >= 2
               /\ result.has_tests

\* a run that stopped early on its second attempt and wrote its record
C28_StoppedEarlyRecorded ==
    /\ pc = "exited"
    /\ output_json # <<>>
    /\ output_json[1].stopped_early
    /\ output_json[1].attempts = 2
    /\ output_json[1].has_tests
    /\ ~output_json[1].tests_pass
    /\ output_json[1].error = "Same error occurred twice - stopping early"

\* C29: a generation that gives no tests on an attempt k >= 2 leaves has_tests
\* and generated_files as attempt k-1 set them: the run ends with has_tests
\* true, with generated_files naming the files attempt k-1 wrote, and with
\* tests_pass false.
C29_FailureKeepsArtifacts ==
    (/\ pc \in {"report", "exited", "fatal"}
     /\ cur.index >= 2
     /\ cur.generation \in {"no_tests", "raised"})
        => /\ result.has_tests
           /\ ~result.tests_pass
           /\ result.generated_files # <<>>
           /\ {result.generated_files[i] : i \in 1..Len(result.generated_files)}
                  = {f.name : f \in {g \in test_dir : g.attempt = prev.index}}

\* the generator gave no tests on attempt 2 after attempt 1 wrote files and
\* failed; the record was written
C29_NoTestsAfterWrittenAttempt ==
    /\ pc = "exited"
    /\ output_json # <<>>
    /\ cur.index = 2
    /\ cur.generation = "no_tests"
    /\ prev.wrote
    /\ prev.execution = "failed"
    /\ output_json[1].has_tests
    /\ output_json[1].generated_files # <<>>
    /\ TruthyStr(output_json[1].error)

\* C30: when the detected language has no entry in TEST_COMMANDS, as the
\* default "unknown", no test subprocess is spawned; every attempt that reaches
\* the run step is a failed execution whose excerpt is the "Unsupported
\* language" message; and with max_retries >= 1 a run whose first attempt
\* reached the run step calls the generator twice and, when the second attempt
\* reaches it too, stops there with stopped_early true.
C30_UnsupportedLanguageConverges ==
    (repo_language = "unknown" /\ LowerLanguage(repo_language) \notin TEST_COMMANDS)
        => /\ calls.subprocess = 0
           /\ ~cur.spawned
           /\ cur.execution # "none" =>
                  /\ cur.execution = "failed"
                  /\ cur.error_output = UnsupportedMessage(repo_language)
           /\ calls.generator <= 2
           /\ (max_retries >= 1 /\ pc \in {"report", "exited", "fatal"}
                   /\ calls.runner >= 1) =>
                  /\ calls.generator = 2
                  /\ result.attempts = 2
           /\ (max_retries >= 1 /\ cur.index = 2 /\ cur.execution # "none") =>
                  /\ result.stopped_early
                  /\ ~result.tests_pass
                  /\ pc \in {"report", "exited"}

\* a run on a repository of unknown language with retries left ended on its
\* second attempt, stopped early, after two runs of the runner and no subprocess
C30_UnknownStoppedOnSecond ==
    /\ pc = "exited"
    /\ repo_language = "unknown"
    /\ max_retries = MaxRetries
    /\ calls.generator = 2
    /\ calls.runner = 2
    /\ calls.subprocess = 0
    /\ prev.execution = "failed"
    /\ cur.error_output = UnsupportedMessage("unknown")
    /\ result.stopped_early
    /\ result.attempts = 2
=============================================================================
